---- MODULE Spec2Model ----
(***************************************************************************)
(* A model of the JMAP request core of cyrus-imapd (imap/http_jmap.c):     *)
(* the batch executor meth_post, the method handlers it dispatches to and  *)
(* the set engine (carddav_store / carddav_remove).  One request is the    *)
(* sequence meth_post_begin, meth_post_dispatch*, meth_post_unlock,        *)
(* meth_post_write; every handler runs to completion inside one            *)
(* meth_post_dispatch step, as the code has no suspension point inside a   *)
(* handler.  SpecStrip runs the loop of strip_spurious_deletes on its own. *)
(***************************************************************************)
EXTENDS Integers, Sequences, FiniteSets, TLC

\* The number of invocations the model dispatches in one run, over all of
\* its requests.
MaxSteps == 4

\* The longest changed and removed lists strip_spurious_deletes is run on
\* on its own.
MaxLen == 3

\* ------------------------------------------------------------------ values
\* a NULL pointer (json_string_value of a non-string, a missing member, ...)
NULL == "<NULL>"
\* a JSON value that is present but is not a string
NonString == "<not-a-string>"

Digits == <<"0", "1", "2", "3", "4", "5", "6", "7", "8", "9">>

\* buf_printf(&buf, "%llu", modseq): the decimal digits of n, most significant first
RECURSIVE fmt_llu(_)
fmt_llu(n) ==
    IF n < 10 THEN <<Digits[n + 1]>>
    ELSE fmt_llu(n \div 10) \o <<Digits[(n % 10) + 1]>>

DigitVal(c) == CHOOSE d \in 0..9 : Digits[d + 1] = c

\* str2uint64 on a string of decimal digits
RECURSIVE str2uint64(_)
str2uint64(s) ==
    IF Len(s) = 0 THEN 0
    ELSE 10 * str2uint64(SubSeq(s, 1, Len(s) - 1)) + DigitVal(s[Len(s)])

\* json_string_value: NULL unless the value is a JSON string
json_string_value(v) == IF v = NonString THEN NULL ELSE v

\* the names makeuuid() hands out, in the order it hands them out
UuidNames == <<"u1", "u2", "u3", "u4", "u5", "u6", "u7", "u8", "u9", "u10",
              "u11", "u12">>

\* the name of the user's INBOX
INBOX == "INBOX"

\* the table of registered methods
messages ==
    {"getMailboxes", "getContactGroups", "getContactGroupUpdates",
     "setContactGroups", "getContacts", "getContactUpdates", "setContacts"}

VARIABLES
    pc,        \* where meth_post is: "idle", "run" (in the loop), "end" (returned)
    idx,       \* the loop index i of meth_post
    msg,       \* the invocation the loop took last (json_array_get(req, i))
    locked,    \* the index lock on the user's INBOX is held by this request
    idmap,     \* req.idmap: creation key -> minted uuid
    idmapmem,  \* the idmap's storage: "none", "live", "freed"
    resp,      \* the response array
    modseq,    \* the user's modseq, as mboxname_readmodseq(inboxname) reads it
    store,     \* the index records of the address-book mailboxes
    db,        \* the CardDAV index
    nuuid,     \* how many uuids makeuuid() has handed out to stored cards
    ret,       \* what meth_post returned: 0 (nothing yet, or OK), 400, 415, 500
    body,      \* what write_body sent: <<>> while nothing was written
    steps,     \* the invocations dispatched so far in this run
    rock,      \* the updates_rock of a call of strip_spurious_deletes on its
               \* own, with the loop index i and the position in the loop
    trip,      \* a value taken through the mapper on its own: the JMAP value
               \* given, the card written from it, the JMAP value read back
    peer,      \* another process that works on mailboxes: where it is, and
               \* whether its mailboxes are this user's
    reqstate,  \* the invocation the loop is about to call with the modseq
               \* read for it (req.state), when the two are taken as
               \* separate steps
    opened,    \* the address-book mailboxes the set handler called last
               \* held open: its mailbox and newmailbox after each
               \* mailbox_open_iwl and mailbox_close, at the end of each item
               \* and at its return
    mq         \* a queue of mailbox events (mboxevent.c): the events
               \* allocated, the caller's head pointer, the position of
               \* mboxevent_notify and the notifications it sent

vars == <<pc, idx, msg, locked, idmap, idmapmem, resp, modseq, store, db,
          nuuid, ret, body, steps, rock, trip, peer, reqstate, opened, mq>>

EmptyMap == [k \in {} |-> NULL]

\* ------------------------------------------------------------ mailbox store
\* mboxname_abook(userid, addressbookId): the model names an address-book
\* mailbox by its addressbookId
mboxname_abook(id) == id

RecsOf(st, mbox) == {k \in 1..Len(st) : st[k].mbox = mbox}

\* append_fromstage + append_commit: a new index record with the next IMAP
\* uid of the mailbox; the modseq advances and the CardDAV row of
\* (mailbox, resource) now points at the new record
append_commit(w, mbox, vuid, kind, resource, card, flags, annots) ==
    LET uid == Cardinality(RecsOf(w.store, mbox)) + 1
        ms  == w.modseq + 1
        rec == [mbox |-> mbox, uid |-> uid, vuid |-> vuid, kind |-> kind,
                resource |-> resource, card |-> card, flagged |-> flags,
                imp |-> annots, modseq |-> ms,
                expunged |-> FALSE, unbind |-> FALSE]
        row == [mbox |-> mbox, resource |-> resource, vuid |-> vuid,
                imap_uid |-> uid, kind |-> kind, alive |-> TRUE, modseq |-> ms]
    IN  [w EXCEPT !.store = Append(@, rec),
                  !.modseq = ms,
                  !.db = {d \in @ : ~(d.mbox = mbox /\ d.resource = resource)}
                         \cup {row}]

\* mailbox_find_index_record: the position of (mbox, uid) in the store, 0 if none
mailbox_find_index_record(st, mbox, uid) ==
    IF \E k \in 1..Len(st) : st[k].mbox = mbox /\ st[k].uid = uid
    THEN CHOOSE k \in 1..Len(st) : st[k].mbox = mbox /\ st[k].uid = uid
    ELSE 0

\* mailbox_rewrite_index_record: the record is replaced, the modseq advances,
\* and the CardDAV row that still points at this record follows it: it is
\* tombstoned by an expunge, unless the record carries the unbind flag
mailbox_rewrite_index_record(w, k, rec) ==
    LET ms == w.modseq + 1
        mine(d) == d.mbox = rec.mbox /\ d.resource = rec.resource
                   /\ d.imap_uid = rec.uid
    IN  [w EXCEPT !.store[k] = [rec EXCEPT !.modseq = ms],
                  !.modseq = ms,
                  !.db = {IF mine(d) /\ ~(rec.expunged /\ rec.unbind)
                          THEN [d EXCEPT !.alive = ~rec.expunged, !.modseq = ms]
                          ELSE d : d \in @}]

\* what carddav_lookup_uid hands back when the UID has no row: zeroed data
NoRow == [mbox |-> NULL, resource |-> NULL, vuid |-> NULL, imap_uid |-> 0,
          kind |-> NULL, alive |-> FALSE, modseq |-> 0]

\* carddav_lookup_uid: the row of the UID, the live one first
carddav_lookup_uid(rows, vuid) ==
    IF \E d \in rows : d.vuid = vuid /\ d.alive
    THEN CHOOSE d \in rows : d.vuid = vuid /\ d.alive
    ELSE IF \E d \in rows : d.vuid = vuid
    THEN CHOOSE d \in rows : d.vuid = vuid
              /\ \A e \in rows : e.vuid = vuid => e.modseq <= d.modseq
    ELSE NoRow

\* carddav_get_updates: every row, tombstones included, changed after since
RECURSIVE SortByModseq(_)
SortByModseq(rows) ==
    IF rows = {} THEN <<>>
    ELSE LET d == CHOOSE d \in rows : \A e \in rows :
                      d.modseq < e.modseq \/ (d.modseq = e.modseq /\ d.alive)
                      \/ d = e
         IN  <<d>> \o SortByModseq(rows \ {d})

carddav_get_updates(rows, since, kind) ==
    SortByModseq({d \in rows : d.kind = kind /\ d.modseq > since})

\* carddav_get_cards: the live rows of a kind in one address-book mailbox,
\* in IMAP uid order
RECURSIVE SortRows(_)
SortRows(rows) ==
    IF rows = {} THEN <<>>
    ELSE LET d == CHOOSE d \in rows : \A e \in rows : d.imap_uid <= e.imap_uid
         IN  <<d>> \o SortRows(rows \ {d})

carddav_get_cards(rows, mbox, kind) ==
    SortRows({d \in rows : d.mbox = mbox /\ d.kind = kind /\ d.alive})

\* ------------------------------------------------------------------ handlers
\* The world a handler works on:
\*   w = [store, db, modseq, nuuid, idmap, resp, locked, r]
\* r is the handler's return code once it is final (a goto done, or the
\* return); a set handler adds mailbox (its current open mailbox), out (the
\* members of its set object) and rr (the value of its variable r while the
\* loops go on: an item that leaves with continue may leave it set).

\* the mailboxes mboxlist_findall visits, and the ones the user may look up
\* and read
Visible == <<INBOX, "Default", "Work", "Shared", "Closed">>

\* cyrus_acl_myrights on the ACL of the mailbox: "l" is ACL_LOOKUP, "r" is
\* ACL_READ
Rights(mboxname) ==
    CASE mboxname = "Shared" -> {"l"}
      [] mboxname = "Closed" -> {}
      [] OTHER -> {"l", "r"}

\* the test with one of the two rights enough
HasLookupRead_either(mboxname) == Rights(mboxname) \cap {"l", "r"} # {}

\* (rights & (ACL_LOOKUP | ACL_READ)) == (ACL_LOOKUP | ACL_READ)
HasLookupRead(mboxname) == {"l", "r"} \subseteq Rights(mboxname)

\* mailbox_open_irl: refused for a mailbox whose index this process already
\* holds locked, which is the INBOX inside a batch
mailbox_open_irl_ok(mboxname, inboxLocked) == ~(mboxname = INBOX /\ inboxLocked)

\* getMailboxes_cb for one mailbox: the callback leaves early without rights
\* or when the open fails; else it unlocks the index of the mailbox it
\* opened, adds the entry and closes the mailbox
getMailboxes_cb(g, mboxname) ==
    IF ~HasLookupRead(mboxname) THEN g
    ELSE IF ~mailbox_open_irl_ok(mboxname, g.locked) THEN g
    ELSE [g EXCEPT !.locked = IF mboxname = INBOX THEN FALSE ELSE @,
                   !.list = Append(@, mboxname)]

RECURSIVE mboxlist_findall(_, _)
mboxlist_findall(g, names) ==
    IF names = <<>> THEN g
    ELSE mboxlist_findall(getMailboxes_cb(g, Head(names)), Tail(names))

getMailboxes_item(w, m, state, g) ==
    [w EXCEPT !.resp = Append(@,
                  [name |-> "mailboxes", tag |-> m.tag, inv |-> m.inv,
                   state |-> state, list |-> g.list, notFound |-> NULL]),
              !.locked = g.locked,
              !.r = 0]

getMailboxes(w, m, state) ==
    getMailboxes_item(w, m, state,
        mboxlist_findall([locked |-> w.locked, list |-> <<>>], Visible))

\* a response of a set method
IsSetResponse(item) == item.name \in {"contactsSet", "contactGroupsSet"}

\* an error item built without the tag
ErrorResponse_untagged(type, m) ==
    [name |-> "error", tag |-> NULL, inv |-> m.inv, type |-> type]

\* json_pack("[s, {s:s}, s]", "error", "type", type, tag)
ErrorResponse(type, m) ==
    [name |-> "error", tag |-> m.tag, inv |-> m.inv, type |-> type]

\* the id taken as it is, without the lookup
_resolveid_raw(map, id) == id

\* _resolveid: the idmap's value for a creation key, else the id itself
_resolveid(map, id) == IF id \in DOMAIN map THEN map[id] ELSE id

\* hash_insert into the idmap: a key already present gets the new value
idmap_insert(map, key, uid) == (key :> uid) @@ map

\* makeuuid(): a uuid no stored card has
makeuuid(w) == UuidNames[w.nuuid + 1]

\* what the handler holds open, noted in its record of the mailboxes
noted(w, ev) ==
    [w EXCEPT !.opened = Append(@, [ev |-> ev, mailbox |-> w.mailbox,
                                    newmailbox |-> w.newmailbox,
                                    lost |-> w.lost])]

\* mailbox_close(&mailbox); nothing happens when it is NULL
close_mailbox(w) ==
    IF w.mailbox = NULL THEN w ELSE noted([w EXCEPT !.mailbox = NULL], "close")

\* a handler that keeps the move destination open
close_newmailbox_never(w) == w

\* mailbox_close(&newmailbox); nothing happens when it is NULL
close_newmailbox(w) ==
    IF w.newmailbox = NULL THEN w
    ELSE noted([w EXCEPT !.newmailbox = NULL], "closenew")

\* the set handlers' current mailbox: kept when it is the one wanted, else
\* closed and the wanted one opened; r # 0 when the store refuses
open_current(w, mboxname, io) ==
    IF w.mailbox # NULL /\ w.mailbox = mboxname THEN w
    ELSE IF io = "open" THEN [close_mailbox(w) EXCEPT !.r = -1]
    ELSE noted([close_mailbox(w) EXCEPT !.mailbox = mboxname], "open")

\* r = mailbox_open_iwl(mboxname, &newmailbox): the move destination; a
\* mailbox newmailbox still pointed to stays open with no pointer to it
open_new(w, mboxname, io) ==
    IF io = "opennew" THEN [w EXCEPT !.r = -1]
    ELSE noted([w EXCEPT !.newmailbox = mboxname,
                         !.lost = IF w.newmailbox = NULL THEN @
                                  ELSE @ \cup {w.newmailbox}],
               "opennew")

\* carddav_store: stage the card and append it to the mailbox
carddav_store(w, mbox, card, kind, resource, flags, annots, io) ==
    IF io = "store" THEN [w EXCEPT !.r = -1]
    ELSE append_commit(w, mbox, card.uid, kind,
                       IF resource = NULL THEN card.uid ELSE resource,
                       card, flags, annots)

carddav_remove_at(w, k, isreplace, io) ==
    IF io = "remove" \/ k = 0 THEN [w EXCEPT !.r = -1]
    ELSE IF w.store[k].expunged THEN w
    ELSE mailbox_rewrite_index_record(w, k,
             [w.store[k] EXCEPT !.unbind = isreplace, !.expunged = TRUE])

\* carddav_remove: expunge the record olduid of the mailbox, with the unbind
\* flag when it is being replaced; a record already expunged is left alone
carddav_remove(w, mbox, olduid, isreplace, io) ==
    carddav_remove_at(w, mailbox_find_index_record(w.store, mbox, olduid),
                      isreplace, io)

\* addressbookId of the arguments, "Default" unless it is a string
AbookArg(a) == IF a.abook # NULL /\ json_string_value(a.abook) # NULL
               THEN a.abook ELSE "Default"

\* an update that never opens a second mailbox
IsMove_never(abook, cdata) == FALSE

\* an update names an address book other than the card's: a move
IsMove(abook, cdata) ==
    /\ abook # NULL
    /\ json_string_value(abook) # NULL
    /\ mboxname_abook(abook) # cdata.mbox

NoOut == [created |-> EmptyMap, notCreated |-> EmptyMap,
          updated |-> <<>>, notUpdated |-> EmptyMap,
          destroyed |-> <<>>, notDestroyed |-> EmptyMap]

\* an item that is left without recording its error
notCreated_lost(w, key, type) == w

notCreated(w, key, type) == [w EXCEPT !.out.notCreated = (key :> type) @@ @]
notUpdated(w, uid, type) == [w EXCEPT !.out.notUpdated = (uid :> type) @@ @]
notDestroyed(w, uid, type) == [w EXCEPT !.out.notDestroyed = (uid :> type) @@ @]

\* a create that reports created[key] without the idmap entry
create_done_noinsert(w, key, uid) ==
    IF w.r # 0 THEN w
    ELSE [w EXCEPT !.out.created = (key :> uid) @@ @, !.nuuid = @ + 1]

\* the end of a create item: fatal when the store failed, else created[key]
\* and the idmap entry
create_done(w, key, uid) ==
    IF w.r # 0 THEN w
    ELSE [w EXCEPT !.out.created = (key :> uid) @@ @,
                   !.nuuid = @ + 1,
                   !.idmap = idmap_insert(@, key, uid)]

\* the end of an update item
update_done(w, uid) ==
    IF w.r # 0 THEN w ELSE [w EXCEPT !.out.updated = Append(@, uid)]

\* if (!r) r = carddav_remove(mailbox, olduid, !newmailbox)
remove_old(w, mbox, olduid, isreplace, io) ==
    IF w.r # 0 THEN w ELSE carddav_remove(w, mbox, olduid, isreplace, io)

\* an update that always removes the old record as a replacement
store_and_remove_unbind(w, card, kind, flags, annots, it, cdata, move) ==
    update_done(
        close_newmailbox(
            remove_old(
                carddav_store(w, IF move THEN mboxname_abook(it.abook)
                                 ELSE w.mailbox,
                              card, kind, cdata.resource, flags, annots, it.io),
                w.mailbox, cdata.imap_uid, TRUE, it.io)),
        it.id)

\* an update that rewrites the card: store the new one, into the new
\* mailbox on a move, then remove the old record
store_and_remove(w, card, kind, flags, annots, it, cdata, move) ==
    update_done(
        close_newmailbox(
            remove_old(
                carddav_store(w, IF move THEN mboxname_abook(it.abook)
                                 ELSE w.mailbox,
                              card, kind, cdata.resource, flags, annots, it.io),
                w.mailbox, cdata.imap_uid, ~move, it.io)),
        it.id)

\* ---- contact groups

\* _add_group_entries: the members of contactIds, each resolved through the
\* idmap and stored as "urn:uuid:" followed by the id; an entry that is not
\* a string is skipped
RECURSIVE _add_group_entries(_, _)
_add_group_entries(map, members) ==
    IF members = <<>> THEN <<>>
    ELSE (IF json_string_value(Head(members)) = NULL THEN <<>>
          ELSE << <<"urn:uuid:", _resolveid(map, Head(members))>> >>)
         \o _add_group_entries(map, Tail(members))

\* the members getgroups_cb reports: the values that start with "urn:uuid:",
\* without the prefix
RECURSIVE contactids(_)
contactids(members) ==
    IF members = <<>> THEN <<>>
    ELSE (IF Head(members)[1] = "urn:uuid:" THEN <<Head(members)[2]>> ELSE <<>>)
         \o contactids(Tail(members))

\* the rows a get emits: all of them, or the ones whose id was asked for
Wanted(rows, hasIds, ids) ==
    SelectSeq(rows, LAMBDA d : ~hasIds \/ \E n \in 1..Len(ids) : ids[n] = d.vuid)

CardOf(w, d) == w.store[mailbox_find_index_record(w.store, d.mbox, d.imap_uid)]

getgroups_obj(d, rec) ==
    [id |-> d.vuid, addressbookId |-> d.mbox, name |-> rec.card.fn,
     contactIds |-> contactids(rec.card.members)]

getgroups_cb(w, d) == getgroups_obj(d, CardOf(w, d))

\* a response that reports every requested id as not found
GetResponse_needall(name, m, state, seen, need, objs) ==
    [name |-> name, tag |-> m.tag, inv |-> m.inv, state |-> state,
     list |-> objs,
     notFound |-> IF m.args.hasIds THEN need ELSE {},
     notFoundNull |-> ~m.args.hasIds \/ need = {}]

\* the tail common to getContactGroups and getContacts: list and notFound
GetResponse(name, m, state, seen, need, objs) ==
    [name |-> name, tag |-> m.tag, inv |-> m.inv, state |-> state,
     list |-> objs,
     notFound |-> IF m.args.hasIds THEN need \ seen ELSE {},
     notFoundNull |-> ~m.args.hasIds \/ need \ seen = {}]

SeqRange(sq) == {sq[n] : n \in 1..Len(sq)}

getContactGroups_rows(w, m, state, rows) ==
    [w EXCEPT !.resp = Append(@,
                  GetResponse("contactGroups", m, state,
                      {rows[n].vuid : n \in 1..Len(rows)}, SeqRange(m.args.ids),
                      [n \in 1..Len(rows) |-> getgroups_cb(w, rows[n])])),
              !.r = 0]

getContactGroups(w, m, state) ==
    IF m.args.hasIds
       /\ \E n \in 1..Len(m.args.ids) : json_string_value(m.args.ids[n]) = NULL
    THEN [w EXCEPT !.r = -1]
    ELSE getContactGroups_rows(w, m, state,
             Wanted(carddav_get_cards(w.db, mboxname_abook(AbookArg(m.args)), "group"),
                    m.args.hasIds, m.args.ids))

\* _add_othergroup_entries: the members of otherAccountContactIds, pairs of a
\* user id and an entry, each stored as "urn:uuid:" followed by the resolved
\* id with the user id as parameter; -1 at an entry that is not a string
_add_othergroup_entries(map, others) ==
    IF \E n \in 1..Len(others) : json_string_value(others[n][2]) = NULL
    THEN [r |-> -1, entries |-> <<>>]
    ELSE [r |-> 0,
          entries |-> [n \in 1..Len(others) |->
                          <<"urn:uuid:", _resolveid(map, others[n][2]),
                            others[n][1]>>]]

\* r of the call of _add_othergroup_entries, 0 without otherAccountContactIds
others_failed(w, o) ==
    o.hasOthers /\ _add_othergroup_entries(w.idmap, o.others).r # 0

GroupCard(w, o, uid) ==
    [uid |-> uid, fn |-> o.name,
     members |-> IF o.hasMembers THEN _add_group_entries(w.idmap, o.members)
                 ELSE <<>>,
     others |-> IF o.hasOthers
                THEN _add_othergroup_entries(w.idmap, o.others).entries
                ELSE <<>>]

\* if (!r) r = carddav_store(mailbox, card, NULL, NULL, NULL, ...)
group_store(w, card, io) ==
    IF w.r # 0 THEN w
    ELSE carddav_store(w, w.mailbox, card, "group", NULL, FALSE, NULL, io)

\* one item of setContactGroups' create loop
setContactGroups_create1(w, it) ==
    IF ~it.obj.hasName THEN notCreated(w, it.key, "missingParameters")
    ELSE IF json_string_value(it.obj.name) = NULL
    THEN notCreated(w, it.key, "invalidArguments")
    ELSE IF others_failed(w, it.obj)
    THEN notCreated(w, it.key, "invalidContactId")
    ELSE create_done(
             group_store(open_current(w, mboxname_abook(AbookArg(it)), it.io),
                         GroupCard(w, it.obj, makeuuid(w)), it.io),
             it.key, makeuuid(w))

GroupUpdateCard(w, o, old) ==
    [old EXCEPT !.fn = IF o.hasName THEN o.name ELSE @,
                !.members = IF o.hasMembers
                            THEN _add_group_entries(w.idmap, o.members) ELSE @,
                !.others = IF o.hasOthers
                           THEN _add_othergroup_entries(w.idmap, o.others).entries
                           ELSE @]

setContactGroups_update_dest(w, it, cdata, move) ==
    IF w.r # 0 THEN w
    ELSE IF mailbox_find_index_record(w.store, cdata.mbox, cdata.imap_uid) = 0
    THEN [w EXCEPT !.r = -1]
    ELSE IF it.io = "parse"
    THEN close_newmailbox([notUpdated(w, it.id, "parseError") EXCEPT !.rr = -1])
    ELSE IF it.obj.hasName /\ json_string_value(it.obj.name) = NULL
    THEN close_newmailbox(notUpdated(w, it.id, "invalidArguments"))
    ELSE IF others_failed(w, it.obj)
    THEN close_newmailbox(notUpdated(w, it.id, "invalidContactId"))
    ELSE store_and_remove(w, GroupUpdateCard(w, it.obj, CardOf(w, cdata).card),
                          "group", FALSE, NULL, it, cdata, move)

setContactGroups_update_opened(w, it, cdata, move) ==
    IF w.r # 0 THEN w
    ELSE setContactGroups_update_dest(
             IF move THEN open_new(w, mboxname_abook(it.abook), it.io) ELSE w,
             it, cdata, move)

setContactGroups_update_found(w, it, cdata) ==
    IF cdata.imap_uid = 0 \/ cdata.resource = NULL \/ cdata.kind # "group"
    THEN notUpdated(w, it.id, "notFound")
    ELSE setContactGroups_update_opened(open_current(w, cdata.mbox, it.io),
                                        it, cdata, IsMove(it.abook, cdata))

\* one item of setContactGroups' update loop: the key is looked up as it is
setContactGroups_update1(w, it) ==
    setContactGroups_update_found([w EXCEPT !.rr = 0], it,
                                  carddav_lookup_uid(w.db, it.id))

destroy_done(w, uid) ==
    IF w.r # 0 THEN w ELSE [w EXCEPT !.out.destroyed = Append(@, uid)]

destroy_remove(w, cdata, io) ==
    IF w.r # 0 THEN w
    ELSE carddav_remove(w, w.mailbox, cdata.imap_uid, FALSE, io)

set_destroy_found(w, it, kind, cdata) ==
    IF cdata.imap_uid = 0 \/ cdata.kind # kind
    THEN notDestroyed(w, it.id, "notFound")
    ELSE destroy_done(destroy_remove(open_current(w, cdata.mbox, it.io),
                                     cdata, it.io),
                      it.id)

\* one entry of a destroy array, for the kind of the handler: an entry that
\* is not a string records nothing (json_object_set_new refuses the NULL
\* key); a string is looked up as it is
set_destroy1(w, it, kind) ==
    IF json_string_value(it.id) = NULL THEN w
    ELSE set_destroy_found([w EXCEPT !.rr = 0], it, kind,
                           carddav_lookup_uid(w.db, it.id))

\* ---- dates

\* printf("%0<w>d", n): the decimal digits of n with zeros in front, w
\* characters at least
RECURSIVE zero_pad(_, _)
zero_pad(s, w) == IF Len(s) >= w THEN s ELSE zero_pad(<<"0">> \o s, w)

\* printf("%04d-%02d-%02d", y, m, d)
fmt_date(y, m, d) ==
    zero_pad(fmt_llu(y), 4) \o <<"-">> \o zero_pad(fmt_llu(m), 2) \o <<"-">>
    \o zero_pad(fmt_llu(d), 2)

IsDigit(c) == \E k \in 1..Len(Digits) : Digits[k] = c

\* _parse_date: YYYY-MM-DD taken apart; -1 unless the string is four digits,
\* a dash, two digits, a dash, two digits and nothing more
_parse_date(date) ==
    IF \/ Len(date) # 10
       \/ \E k \in {1, 2, 3, 4, 6, 7, 9, 10} : ~IsDigit(date[k])
       \/ date[5] # "-"
       \/ date[8] # "-"
    THEN [r |-> -1, y |-> 0, m |-> 0, d |-> 0]
    ELSE [r |-> 0,
          y |-> DigitVal(date[1]) * 1000 + DigitVal(date[2]) * 100
                + DigitVal(date[3]) * 10 + DigitVal(date[4]),
          m |-> DigitVal(date[6]) * 10 + DigitVal(date[7]),
          d |-> DigitVal(date[9]) * 10 + DigitVal(date[10])]

\* the entry of a date property: its value and its parameters, in order
DateEntry(y, m, d, params) == [value |-> fmt_date(y, m, d), params |-> params]

\* the card has no entry of the key
NoEntry == [value |-> <<>>, params |-> <<>>]

HasParam(entry, name) ==
    \E k \in 1..Len(entry.params) : entry.params[k][1] = name

\* an entry written without the parameter of the unknown day
_date_to_card_entry_noday(y, m, d) ==
    IF y = 0 /\ m = 0 /\ d = 0 THEN NoEntry
    ELSE DateEntry(IF y = 0 THEN 1604 ELSE y, IF m = 0 THEN 1 ELSE m,
                   IF d = 0 THEN 1 ELSE d,
                   (IF y = 0 THEN << <<"x-apple-omit-year", "1604">> >> ELSE <<>>)
                   \o (IF m = 0 THEN << <<"x-fm-no-month", "1">> >> ELSE <<>>))

\* the entry _date_to_card adds for a date in range, with the parameters of
\* the components that are not known; no entry when none is known
_date_to_card_entry(y, m, d) ==
    IF y = 0 /\ m = 0 /\ d = 0 THEN NoEntry
    ELSE DateEntry(IF y = 0 THEN 1604 ELSE y, IF m = 0 THEN 1 ELSE m,
                   IF d = 0 THEN 1 ELSE d,
                   (IF y = 0 THEN << <<"x-apple-omit-year", "1604">> >> ELSE <<>>)
                   \o (IF m = 0 THEN << <<"x-fm-no-month", "1">> >> ELSE <<>>)
                   \o (IF d = 0 THEN << <<"x-fm-no-day", "1">> >> ELSE <<>>))

\* range checks that let the year 1604 through
_date_to_card_parsed_1604(old, p) ==
    IF p.r # 0 THEN [r |-> -1, entry |-> old]
    ELSE IF p.m > 12 \/ p.d > 31 THEN [r |-> -1, entry |-> old]
    ELSE IF p.y > 0 /\ p.y < 1604 THEN [r |-> -1, entry |-> old]
    ELSE [r |-> 0, entry |-> _date_to_card_entry(p.y, p.m, p.d)]

\* the range checks of _date_to_card on the parsed date; the entries of the
\* key are deleted only once the checks have passed
_date_to_card_parsed(old, p) ==
    IF p.r # 0 THEN [r |-> -1, entry |-> old]
    ELSE IF p.m > 12 \/ p.d > 31 THEN [r |-> -1, entry |-> old]
    ELSE IF p.y > 0 /\ p.y < 1605 THEN [r |-> -1, entry |-> old]
    ELSE [r |-> 0, entry |-> _date_to_card_entry(p.y, p.m, p.d)]

\* _date_to_card: the entry of the key on the card after the call, NoEntry
\* when the card has none, and the return code
_date_to_card(old, jval) ==
    IF jval = NULL \/ json_string_value(jval) = NULL
    THEN [r |-> -1, entry |-> old]
    ELSE _date_to_card_parsed(old, _parse_date(jval))

\* the date _date_to_jmap prints for a parsed value in range
_date_to_jmap_parsed(entry, p) ==
    fmt_date(IF HasParam(entry, "x-apple-omit-year") \/ p.y = 1604 THEN 0 ELSE p.y,
             IF HasParam(entry, "x-fm-no-month") THEN 0 ELSE p.m,
             IF HasParam(entry, "x-fm-no-day") THEN 0 ELSE p.d)

_date_to_jmap_checked(entry, p) ==
    IF p.r # 0 \/ p.y < 1604 \/ p.m > 12 \/ p.d > 31 THEN fmt_date(0, 0, 0)
    ELSE _date_to_jmap_parsed(entry, p)

\* _date_to_jmap: "0000-00-00" without an entry or for a value out of range
_date_to_jmap(entry) ==
    IF entry = NoEntry THEN fmt_date(0, 0, 0)
    ELSE _date_to_jmap_checked(entry, _parse_date(entry.value))

\* ---- contacts

\* an array that holds no more than the value set
strarray_set_fresh(sa, pos, val) ==
    [n \in 1..(pos + 1) |-> IF n = pos + 1 THEN val ELSE ""]

\* strarray_set(sa, idx, s) on the values of a multi-value property: the
\* array grows to idx + 1 entries, the gap filled with empty strings
strarray_set(sa, pos, val) ==
    [n \in 1..(IF Len(sa) > pos THEN Len(sa) ELSE pos + 1) |->
        IF n = pos + 1 THEN val ELSE IF n <= Len(sa) THEN sa[n] ELSE ""]

strarray_safenth(sa, pos) == IF pos < Len(sa) THEN sa[pos + 1] ELSE ""

NonEmpty(v) == IF v = "" THEN <<>> ELSE <<v>>

NameWords(n) ==
    NonEmpty(strarray_safenth(n, 3)) \o NonEmpty(strarray_safenth(n, 1))
    \o NonEmpty(strarray_safenth(n, 2)) \o NonEmpty(strarray_safenth(n, 0))
    \o NonEmpty(strarray_safenth(n, 4))

\* _make_fn: prefix, first, middle, last, suffix of N that are not empty; else
\* the nickname; else the first email; else "No Name".  The words of the
\* joined string are kept as a sequence.
_make_fn(card) ==
    IF NameWords(card.n) # <<>> THEN NameWords(card.n)
    ELSE IF card.nickname # NULL /\ card.nickname # "" THEN <<card.nickname>>
    ELSE IF card.email # <<>> /\ card.email[1].value # ""
    THEN <<card.email[1].value>>
    ELSE <<"No Name">>

NameKeys == [prefix |-> 3, firstName |-> 1, lastName |-> 0, suffix |-> 4]
OrgKeys == [company |-> 0, department |-> 1, jobTitle |-> 2]

\* the names of the services, as _servicetype spells them, and in lower case
ServiceNames == <<"AIM", "Facebook", "Flickr", "GaduGadu", "GitHub",
                  "GoogleTalk", "ICQ", "Jabber", "LinkedIn", "MSN", "MySpace",
                  "QQ", "Skype", "Twitter", "Yahoo">>
ServiceLower == <<"aim", "facebook", "flickr", "gadugadu", "github",
                  "googletalk", "icq", "jabber", "linkedin", "msn", "myspace",
                  "qq", "skype", "twitter", "yahoo">>

\* tolower, on the spellings the requests use: a service name as it is
\* spelled above; every other string of the requests is in lower case or is
\* compared with nothing
lower(s) ==
    IF \E k \in 1..Len(ServiceNames) : ServiceNames[k] = s
    THEN ServiceLower[CHOOSE k \in 1..Len(ServiceNames) : ServiceNames[k] = s]
    ELSE s

\* _is_im: the services written as IMPP
_is_im(type) ==
    lower(type) \in {"aim", "facebook", "gadugadu", "googletalk", "icq",
                     "jabber", "msn", "qq", "skype", "twitter", "yahoo"}

\* _servicetype: the known spelling of a service, else the type as it is
_servicetype(type) ==
    IF \E k \in 1..Len(ServiceLower) : ServiceLower[k] = lower(type)
    THEN ServiceNames[CHOOSE k \in 1..Len(ServiceLower) :
                         ServiceLower[k] = lower(type)]
    ELSE type

\* _json_object_get_string: NULL for a member that is absent or no string
_json_object_get_string(v) == IF v = NULL THEN NULL ELSE json_string_value(v)

\* one parameter, when the value is there
Param(name, v) == IF v = NULL THEN <<>> ELSE << <<name, v>> >>

\* the loops over the parameters of an entry: the value of the last one of
\* the name, else what was there before the loop
RECURSIVE ParamOf(_, _, _)
ParamOf(params, name, val) ==
    IF params = <<>> THEN val
    ELSE ParamOf(Tail(params), name,
                 IF lower(Head(params)[1]) = name THEN Head(params)[2] ELSE val)

\* the type a loop over the parameters ends with: that of the last type
\* parameter the table knows, else what was there before the loop
RECURSIVE TypeOf(_, _, _)
TypeOf(params, table, type) ==
    IF params = <<>> THEN type
    ELSE TypeOf(Tail(params), table,
                IF lower(Head(params)[1]) = "type"
                   /\ lower(Head(params)[2]) \in DOMAIN table
                THEN table[lower(Head(params)[2])] ELSE type)

AdrTypes == ("home" :> "home") @@ ("work" :> "work") @@ ("billing" :> "billing")
            @@ ("postal" :> "postal")
EmailTypes == ("home" :> "personal") @@ ("work" :> "work")
PhoneTypes == ("home" :> "home") @@ ("work" :> "work") @@ ("cell" :> "mobile")
              @@ ("mobile" :> "mobile") @@ ("fax" :> "fax") @@ ("pager" :> "pager")

\* the items of an array argument all have their required string members
ItemsHave(arg, required) ==
    \A i \in 1..Len(arg) : \A k \in required :
        _json_object_get_string(arg[i][k]) # NULL

\* _emails_to_card: one EMAIL entry per item
email_entry(item) ==
    [value |-> item.value,
     params |-> (IF item.type = "other" THEN <<>>
                 ELSE << <<"type", IF item.type = "personal" THEN "home"
                                   ELSE item.type>> >>)
                \o Param("label", _json_object_get_string(item.label))
                \o (IF item.isDefault = "true" THEN << <<"type", "pref">> >>
                    ELSE <<>>)]

_emails_to_card(arg) ==
    IF ~ItemsHave(arg, {"type", "value"}) THEN [r |-> -1, entries |-> <<>>]
    ELSE [r |-> 0, entries |-> [i \in 1..Len(arg) |-> email_entry(arg[i])]]

\* _phones_to_card: one TEL entry per item
phone_entry(item) ==
    [value |-> item.value,
     params |-> (IF item.type = "mobile" THEN << <<"type", "cell">> >>
                 ELSE IF item.type = "other" THEN <<>>
                 ELSE << <<"type", item.type>> >>)
                \o Param("label", _json_object_get_string(item.label))]

_phones_to_card(arg) ==
    IF ~ItemsHave(arg, {"type", "value"}) THEN [r |-> -1, entries |-> <<>>]
    ELSE [r |-> 0, entries |-> [i \in 1..Len(arg) |-> phone_entry(arg[i])]]

\* the IMPP entry _online_to_card adds for a username of a known service
impp_entry(value, label) ==
    [name |-> "impp", value |-> value, params |-> << <<"x-type", label>> >>]

\* _online_to_card: URL for a uri; for a username IMPP when the label is a
\* known service, else X-SOCIAL-PROFILE with an empty value; nothing for
\* another type
online_entry(type, value, label) ==
    IF type = "uri"
    THEN <<[name |-> "url", value |-> value, params |-> Param("label", label)]>>
    ELSE IF type # "username" THEN <<>>
    ELSE IF label # NULL /\ _is_im(label) THEN <<impp_entry(value, label)>>
    ELSE <<[name |-> "x-social-profile", value |-> "",
            params |-> Param("type", label) \o << <<"x-user", value>> >>]>>

RECURSIVE online_entries(_)
online_entries(arg) ==
    IF arg = <<>> THEN <<>>
    ELSE online_entry(Head(arg).type, Head(arg).value,
                      _json_object_get_string(Head(arg).label))
         \o online_entries(Tail(arg))

_online_to_card(arg) ==
    IF ~ItemsHave(arg, {"value", "type"}) THEN [r |-> -1, entries |-> <<>>]
    ELSE [r |-> 0, entries |-> online_entries(arg)]

\* _addresses_to_card: one ADR entry per item, the street at position 2
adr_entry(item) ==
    [values |-> <<"", "", item.street, item.locality, item.region,
                  item.postcode, item.country>>,
     params |-> (IF item.type = "other" THEN <<>> ELSE << <<"type", item.type>> >>)
                \o Param("label", _json_object_get_string(item.label))]

_addresses_to_card(arg) ==
    IF ~ItemsHave(arg, {"type", "street", "locality", "region", "postcode",
                        "country"})
    THEN [r |-> -1, entries |-> <<>>]
    ELSE [r |-> 0, entries |-> [i \in 1..Len(arg) |-> adr_entry(arg[i])]]

\* what a key of _json_to_card that calls a helper leaves: the helper's
\* error, or its entries on the card
_json_to_card_entries(c, key, res) ==
    IF res.r # 0 THEN [c EXCEPT !.r = -1]
    ELSE [c EXCEPT !.card[key] = res.entries, !.record_is_dirty = TRUE]

_json_to_card_bday(c, res) ==
    IF res.r # 0 THEN [c EXCEPT !.r = -1]
    ELSE [c EXCEPT !.card.bday = res.entry, !.record_is_dirty = TRUE]

\* _kv_to_card for the key of a single value
_json_to_card_kv(c, name, jval) ==
    IF json_string_value(jval) = NULL THEN [c EXCEPT !.r = -1]
    ELSE [c EXCEPT !.card[name] = jval, !.record_is_dirty = TRUE]

\* one key of the object in _json_to_card.
\* c = [card, flagged, imp, name_is_dirty, record_is_dirty, r]
_json_to_card_key(c, key, jval) ==
    CASE key = "isFlagged" -> [c EXCEPT !.flagged = (jval = "true")]
      [] key = "x-importance" ->
             [c EXCEPT !.imp = IF jval \in {"0", NonString} THEN NULL ELSE jval]
      [] key = "avatar" -> c
      [] key \in DOMAIN NameKeys ->
             IF json_string_value(jval) = NULL THEN [c EXCEPT !.r = -1]
             ELSE [c EXCEPT !.name_is_dirty = TRUE,
                            !.card.n = strarray_set(@, NameKeys[key], jval)]
      [] key = "nickname" ->
             IF json_string_value(jval) = NULL THEN [c EXCEPT !.r = -1]
             ELSE [c EXCEPT !.card.nickname = jval, !.record_is_dirty = TRUE]
      [] key = "birthday" ->
             _json_to_card_bday(c, _date_to_card(c.card.bday, jval))
      [] key = "anniversary" -> _json_to_card_kv(c, "anniversary", jval)
      [] key \in DOMAIN OrgKeys ->
             IF json_string_value(jval) = NULL THEN [c EXCEPT !.r = -1]
             ELSE [c EXCEPT !.card.org = strarray_set(@, OrgKeys[key], jval),
                            !.record_is_dirty = TRUE]
      [] key = "emails" -> _json_to_card_entries(c, "email", _emails_to_card(jval))
      [] key = "phones" -> _json_to_card_entries(c, "tel", _phones_to_card(jval))
      [] key = "online" -> _json_to_card_entries(c, "online", _online_to_card(jval))
      [] key = "addresses" ->
             _json_to_card_entries(c, "adr", _addresses_to_card(jval))
      [] key = "notes" -> _json_to_card_kv(c, "note", jval)
      [] OTHER -> [c EXCEPT !.r = -1]

\* the loop of _json_to_card over the keys of the object, in order
RECURSIVE _json_to_card_loop(_, _)
_json_to_card_loop(c, kvs) ==
    IF kvs = <<>> \/ c.r # 0 THEN c
    ELSE _json_to_card_loop(_json_to_card_key(c, Head(kvs)[1], Head(kvs)[2]),
                            Tail(kvs))

\* after the loop: FN is rebuilt when the name changed; 204 when nothing of
\* the card itself changed
_json_to_card_end(c) ==
    IF c.r # 0 THEN c
    ELSE IF c.name_is_dirty
    THEN [c EXCEPT !.card.fn = _make_fn(c.card), !.record_is_dirty = TRUE]
    ELSE IF ~c.record_is_dirty THEN [c EXCEPT !.r = 204]
    ELSE c

\* _json_to_card: r = 0, -1, or 204
_json_to_card(card, arg, flagged, imp) ==
    _json_to_card_end(
        _json_to_card_loop(
            [card |-> card, flagged |-> flagged, imp |-> imp,
             name_is_dirty |-> (card.fn = <<>>), record_is_dirty |-> FALSE,
             r |-> 0],
            arg))

\* the card of a create: VERSION and UID, no other property.  online holds
\* the URL, IMPP and X-SOCIAL-PROFILE entries in the order of the card.
NewCard(uid) ==
    [uid |-> uid, fn |-> <<>>, n |-> <<>>, nickname |-> NULL, email |-> <<>>,
     org |-> <<>>, note |-> NULL, anniversary |-> NULL, bday |-> NoEntry,
     adr |-> <<>>, tel |-> <<>>, online |-> <<>>]

setContacts_create_opened(w, it, uid, c) ==
    IF w.r # 0 THEN w
    ELSE IF c.r # 0 THEN notCreated(w, it.key, "invalidParameters")
    ELSE create_done(carddav_store(w, w.mailbox, c.card, "contact", NULL,
                                   c.flagged, c.imp, it.io),
                     it.key, uid)

\* one item of setContacts' create loop: the mailbox is opened before the
\* object is looked at
setContacts_create1(w, it) ==
    setContacts_create_opened(
        open_current(w, mboxname_abook(AbookArg(it)), it.io), it, makeuuid(w),
        _json_to_card(NewCard(makeuuid(w)), it.obj, FALSE, NULL))

\* r == 204 in the same mailbox: only the flags and the annotation are
\* written, by rewriting the index record
setContacts_touch(w, k, c, it) ==
    IF it.io = "store" THEN [close_newmailbox(w) EXCEPT !.r = -1]
    ELSE update_done(
             close_newmailbox(
                 mailbox_rewrite_index_record(w, k,
                     [w.store[k] EXCEPT !.flagged = c.flagged, !.imp = c.imp])),
             it.id)

\* an update that takes the fast path whenever the mapper returns 204
setContacts_update_card_touch(w, it, cdata, move, k, c) ==
    IF c.r = 204 THEN setContacts_touch(w, k, c, it)
    ELSE IF c.r # 0
    THEN close_newmailbox(notUpdated(w, it.id, "invalidParameters"))
    ELSE store_and_remove(w, c.card, "contact", c.flagged, c.imp, it, cdata, move)

setContacts_update_card(w, it, cdata, move, k, c) ==
    IF c.r = 204 /\ ~move THEN setContacts_touch(w, k, c, it)
    ELSE IF c.r \notin {0, 204}
    THEN close_newmailbox(notUpdated(w, it.id, "invalidParameters"))
    ELSE store_and_remove(w, c.card, "contact", c.flagged, c.imp, it, cdata, move)

setContacts_update_record(w, it, cdata, move, k) ==
    IF k = 0 THEN [w EXCEPT !.r = -1]
    ELSE IF it.io = "parse"
    THEN close_newmailbox(notUpdated(w, it.id, "parseError"))
    ELSE setContacts_update_card(w, it, cdata, move, k,
             _json_to_card(w.store[k].card, it.obj, w.store[k].flagged,
                           w.store[k].imp))

setContacts_update_dest(w, it, cdata, move) ==
    IF w.r # 0 THEN w
    ELSE setContacts_update_record(w, it, cdata, move,
             mailbox_find_index_record(w.store, cdata.mbox, cdata.imap_uid))

setContacts_update_opened(w, it, cdata, move) ==
    IF w.r # 0 THEN w
    ELSE setContacts_update_dest(
             IF move THEN open_new(w, mboxname_abook(it.abook), it.io) ELSE w,
             it, cdata, move)

setContacts_update_found(w, it, cdata) ==
    IF cdata.imap_uid = 0 \/ cdata.kind # "contact"
    THEN notUpdated(w, it.id, "notFound")
    ELSE setContacts_update_opened(open_current(w, cdata.mbox, it.io),
                                   it, cdata, IsMove(it.abook, cdata))

\* one item of setContacts' update loop: the key is looked up as it is
setContacts_update1(w, it) ==
    setContacts_update_found(w, it, carddav_lookup_uid(w.db, it.id))

\* the street getcontacts_cb joins from the positions 0 to 2 of ADR, as the
\* pieces of the string
adr_street(a) ==
    (IF strarray_safenth(a, 0) # "" THEN <<strarray_safenth(a, 0), "\n">> ELSE <<>>)
    \o (IF strarray_safenth(a, 1) # "" THEN <<strarray_safenth(a, 1), "\n">>
        ELSE <<>>)
    \o NonEmpty(strarray_safenth(a, 2))

adr_item(entry) ==
    [type |-> TypeOf(entry.params, AdrTypes, "other"),
     label |-> ParamOf(entry.params, "label", NULL),
     street |-> adr_street(entry.values),
     locality |-> strarray_safenth(entry.values, 3),
     region |-> strarray_safenth(entry.values, 4),
     postcode |-> strarray_safenth(entry.values, 5),
     country |-> strarray_safenth(entry.values, 6)]

IsPref(params) ==
    \E k \in 1..Len(params) :
        lower(params[k][1]) = "type" /\ lower(params[k][2]) = "pref"

\* the last EMAIL with type=pref taken for the default
defaultIndex_last(email) ==
    IF \E i \in 1..Len(email) : IsPref(email[i].params)
    THEN CHOOSE i \in 1..Len(email) :
             /\ IsPref(email[i].params)
             /\ \A j \in (i + 1)..Len(email) : ~IsPref(email[j].params)
    ELSE 1

\* defaultIndex: the first EMAIL with type=pref, else the first EMAIL
defaultIndex(email) ==
    IF \E i \in 1..Len(email) : IsPref(email[i].params)
    THEN CHOOSE i \in 1..Len(email) :
             /\ IsPref(email[i].params)
             /\ \A j \in 1..(i - 1) : ~IsPref(email[j].params)
    ELSE 1

email_item(email, i) ==
    [type |-> TypeOf(email[i].params, EmailTypes, "other"),
     label |-> ParamOf(email[i].params, "label", NULL),
     value |-> email[i].value,
     isDefault |-> (i = defaultIndex(email))]

phone_item(entry) ==
    [type |-> TypeOf(entry.params, PhoneTypes, "other"),
     label |-> ParamOf(entry.params, "label", NULL),
     value |-> entry.value]

\* the label getcontacts_cb gives a service: the known spelling of the value
\* of the last parameter of the name, no label without one
service_label(v) == IF v = NULL THEN NULL ELSE _servicetype(v)

online_item(entry) ==
    CASE entry.name = "url" ->
             [type |-> "uri", label |-> ParamOf(entry.params, "label", NULL),
              value |-> entry.value]
      [] entry.name = "impp" ->
             [type |-> "username",
              label |-> service_label(ParamOf(entry.params, "x-service-type", NULL)),
              value |-> entry.value]
      [] OTHER ->
             [type |-> "username",
              label |-> service_label(ParamOf(entry.params, "type", NULL)),
              value |-> ParamOf(entry.params, "x-user", entry.value)]

\* a name part followed, when the second part is not empty, by a space and
\* the second part: the pieces of the string
name_joined(first, second) ==
    <<first>> \o (IF second # "" THEN <<" ", second>> ELSE <<>>)

getcontacts_obj(d, rec) ==
    [id |-> d.vuid, addressbookId |-> d.mbox, isFlagged |-> rec.flagged,
     importance |-> rec.imp,
     lastName |-> name_joined(strarray_safenth(rec.card.n, 0),
                              strarray_safenth(rec.card.n, 4)),
     firstName |-> name_joined(strarray_safenth(rec.card.n, 1),
                               strarray_safenth(rec.card.n, 2)),
     prefix |-> strarray_safenth(rec.card.n, 3),
     company |-> strarray_safenth(rec.card.org, 0),
     department |-> strarray_safenth(rec.card.org, 1),
     addresses |-> [i \in 1..Len(rec.card.adr) |-> adr_item(rec.card.adr[i])],
     emails |-> [i \in 1..Len(rec.card.email) |-> email_item(rec.card.email, i)],
     phones |-> [i \in 1..Len(rec.card.tel) |-> phone_item(rec.card.tel[i])],
     online |-> [i \in 1..Len(rec.card.online) |-> online_item(rec.card.online[i])],
     nickname |-> IF rec.card.nickname = NULL THEN "" ELSE rec.card.nickname,
     birthday |-> _date_to_jmap(rec.card.bday),
     notes |-> IF rec.card.note = NULL THEN "" ELSE rec.card.note]

getcontacts_cb(w, d) == getcontacts_obj(d, CardOf(w, d))

getContacts_rows(w, m, state, rows) ==
    [w EXCEPT !.resp = Append(@,
                  GetResponse("contacts", m, state,
                      {rows[n].vuid : n \in 1..Len(rows)}, SeqRange(m.args.ids),
                      [n \in 1..Len(rows) |-> getcontacts_cb(w, rows[n])])),
              !.r = 0]

getContacts(w, m, state) ==
    IF m.args.hasIds
       /\ \E n \in 1..Len(m.args.ids) : json_string_value(m.args.ids[n]) = NULL
    THEN [w EXCEPT !.r = -1]
    ELSE getContacts_rows(w, m, state,
             Wanted(carddav_get_cards(w.db, mboxname_abook(AbookArg(m.args)), "contact"),
                    m.args.hasIds, m.args.ids))

\* ---- updates

InSeq(x, sq) == \E n \in 1..Len(sq) : sq[n] = x
RemoveAt(sq, n) == SubSeq(sq, 1, n - 1) \o SubSeq(sq, n + 1, Len(sq))
\* unsigned arithmetic on the index: UINT_MAX stands for 2^32 - 1, the value
\* of 0 - 1, and UINT_MAX + 1 is 0
UINT_MAX == -1
udec(i) == IF i = 0 THEN UINT_MAX ELSE i - 1
uinc(i) == IF i = UINT_MAX THEN 0 ELSE i + 1

\* a body of the outer loop that removes removed[i] and leaves i where it is
strip_body_noback(removed, changed, i) ==
    IF InSeq(removed[i + 1], changed)
    THEN [removed |-> RemoveAt(removed, i + 1), i |-> i]
    ELSE [removed |-> removed, i |-> i]

\* the body of the outer loop of strip_spurious_deletes, with its unsigned
\* index i: a match in changed removes removed[i] and steps i back
strip_body(removed, changed, i) ==
    IF InSeq(removed[i + 1], changed)
    THEN [removed |-> RemoveAt(removed, i + 1), i |-> udec(i)]
    ELSE [removed |-> removed, i |-> i]

\* the outer loop, given what its body left: i++ and the next turn
RECURSIVE strip_spurious_deletes(_, _, _)
strip_next(b, changed) == strip_spurious_deletes(b.removed, changed, uinc(b.i))

\* strip_spurious_deletes: the loop over removed, from the index i on
strip_spurious_deletes(removed, changed, i) ==
    IF ~(i < Len(removed)) THEN removed
    ELSE strip_next(strip_body(removed, changed, i), changed)

VuidsOf(sel) == [n \in 1..Len(sel) |-> sel[n].vuid]
Vuids(rows, alive) == VuidsOf(SelectSeq(rows, LAMBDA d : d.alive = alive))

UpdatesItem(m, state, kind, changed, removed) ==
    [name |-> IF kind = "contact" THEN "contactUpdates" ELSE "contactGroupUpdates",
     tag |-> m.tag, inv |-> m.inv, oldState |-> m.args.sinceState,
     newState |-> state, changed |-> changed, removed |-> removed]

\* a nested get of the changed records whatever the fetch flag says
updates_fetch_always(w, m, state, kind, changed) ==
    IF changed # <<>>
    THEN IF kind = "contact"
         THEN getContacts(w, [m EXCEPT !.args = [abook |-> m.args.abook,
                                  hasIds |-> TRUE, ids |-> changed]], state)
         ELSE getContactGroups(w, [m EXCEPT !.args = [abook |-> m.args.abook,
                                       hasIds |-> TRUE, ids |-> changed]], state)
    ELSE w

\* the nested get of the changed records, when fetchRecords asks for it
updates_fetch(w, m, state, kind, changed) ==
    IF m.args.fetch /\ changed # <<>>
    THEN IF kind = "contact"
         THEN getContacts(w, [m EXCEPT !.args = [abook |-> m.args.abook,
                                  hasIds |-> TRUE, ids |-> changed]], state)
         ELSE getContactGroups(w, [m EXCEPT !.args = [abook |-> m.args.abook,
                                       hasIds |-> TRUE, ids |-> changed]], state)
    ELSE w

updates_changed(w, m, state, kind, changed, removed) ==
    updates_fetch(
        [w EXCEPT !.resp = Append(@, UpdatesItem(m, state, kind, changed, removed)),
                  !.r = 0],
        m, state, kind, changed)

updates_rows(w, m, state, kind, rows) ==
    updates_changed(w, m, state, kind, Vuids(rows, TRUE),
        strip_spurious_deletes(Vuids(rows, FALSE), Vuids(rows, TRUE), 0))

\* an updates handler that reports every change since the state it is at
updates_handler_current(w, m, state, kind) ==
    IF ~m.args.hasSince \/ m.args.sinceState = <<NonString>>
    THEN [w EXCEPT !.r = -1]
    ELSE updates_rows(w, m, state, kind,
             carddav_get_updates(w.db, str2uint64(state) - 1, kind))

\* getContactUpdates and getContactGroupUpdates: -1 without a string sinceState
updates_handler(w, m, state, kind) ==
    IF ~m.args.hasSince \/ m.args.sinceState = <<NonString>>
    THEN [w EXCEPT !.r = -1]
    ELSE updates_rows(w, m, state, kind,
             carddav_get_updates(w.db, str2uint64(m.args.sinceState), kind))

getContactUpdates(w, m, state) == updates_handler(w, m, state, "contact")
getContactGroupUpdates(w, m, state) == updates_handler(w, m, state, "group")

\* ---- the set handlers

set_item(w, it, kind, phase) ==
    CASE phase = "create" /\ kind = "group" -> setContactGroups_create1(w, it)
      [] phase = "update" /\ kind = "group" -> setContactGroups_update1(w, it)
      [] phase = "create" /\ kind = "contact" -> setContacts_create1(w, it)
      [] phase = "update" /\ kind = "contact" -> setContacts_update1(w, it)
      [] OTHER -> set_destroy1(w, it, kind)

\* the bottom of a loop, or a continue: the next item, unless this one was
\* fatal and left for done
item_end(w) == IF w.r # 0 THEN w ELSE noted(w, "item")

\* the loops of a set handler: every item in order, until one is fatal
RECURSIVE set_loop(_, _, _, _)
set_loop(w, items, kind, phase) ==
    IF items = <<>> \/ w.r # 0 THEN w
    ELSE set_loop(item_end(set_item(w, Head(items), kind, phase)),
                  Tail(items), kind, phase)

\* the comparison alone, without the check that ifInState is a string
StateMismatch_strcmp(a, state) ==
    a.hasIfInState /\ a.ifInState # <<NonString>> /\ a.ifInState # state

\* ifInState is present and is not the string of the current state
StateMismatch(a, state) ==
    a.hasIfInState /\ (a.ifInState = <<NonString>> \/ a.ifInState # state)

\* a set response whose newState is the state the handler was given
SetResponse_stale(name, m, state, w) ==
    [name |-> name, tag |-> m.tag, inv |-> m.inv, oldState |-> state,
     newState |-> state,
     created |-> w.out.created, notCreated |-> w.out.notCreated,
     updated |-> w.out.updated, notUpdated |-> w.out.notUpdated,
     destroyed |-> w.out.destroyed, notDestroyed |-> w.out.notDestroyed]

\* the response of a set handler, built after its loops: newState is the
\* modseq read again
SetResponse(name, m, state, w) ==
    [name |-> name, tag |-> m.tag, inv |-> m.inv, oldState |-> state,
     newState |-> fmt_llu(w.modseq),
     created |-> w.out.created, notCreated |-> w.out.notCreated,
     updated |-> w.out.updated, notUpdated |-> w.out.notUpdated,
     destroyed |-> w.out.destroyed, notDestroyed |-> w.out.notDestroyed]

\* the handler's world without the set handler's own fields
set_world(x) ==
    [store |-> x.store, db |-> x.db, modseq |-> x.modseq, nuuid |-> x.nuuid,
     idmap |-> x.idmap, resp |-> x.resp, locked |-> x.locked, r |-> x.r,
     opened |-> x.opened]

\* done: mailbox_close(&newmailbox); mailbox_close(&mailbox); return r
set_return(x) == noted(close_mailbox(close_newmailbox(x)), "return")

\* the locals of a set handler at its start: no mailbox open
set_locals(w) ==
    [w EXCEPT !.opened = <<>>]
        @@ [mailbox |-> NULL, newmailbox |-> NULL, lost |-> {}, out |-> NoOut,
            rr |-> 0]

\* after the loops: the response, unless an item was fatal; the handler
\* returns what its r holds then
set_done(x, m, state, name) ==
    IF x.r # 0 THEN set_world(set_return(x))
    ELSE [set_world(set_return(x)) EXCEPT
              !.resp = Append(@, SetResponse(name, m, state, x)),
              !.r = x.rr]

\* a set handler that runs its destroy loop first
set_handler_destroy_first(w, m, state, kind, name) ==
    IF StateMismatch(m.args, state)
    THEN [w EXCEPT !.resp = Append(@, ErrorResponse("stateMismatch", m)),
                   !.r = 0, !.opened = <<>>]
    ELSE set_done(
             set_loop(
                 set_loop(
                     set_loop(set_locals(w),
                              m.args.destroy, kind, "destroy"),
                     m.args.create, kind, "create"),
                 m.args.update, kind, "update"),
             m, state, name)

set_handler(w, m, state, kind, name) ==
    IF StateMismatch(m.args, state)
    THEN [w EXCEPT !.resp = Append(@, ErrorResponse("stateMismatch", m)),
                   !.r = 0, !.opened = <<>>]
    ELSE set_done(
             set_loop(
                 set_loop(
                     set_loop(set_locals(w),
                              m.args.create, kind, "create"),
                     m.args.update, kind, "update"),
                 m.args.destroy, kind, "destroy"),
             m, state, name)

setContactGroups(w, m, state) == set_handler(w, m, state, "group", "contactGroupsSet")
setContacts(w, m, state) == set_handler(w, m, state, "contact", "contactsSet")

\* mp->proc(&req)
proc(w, m, state) ==
    CASE m.name = "getMailboxes" -> getMailboxes(w, m, state)
      [] m.name = "getContactGroups" -> getContactGroups(w, m, state)
      [] m.name = "setContactGroups" -> setContactGroups(w, m, state)
      [] m.name = "getContactGroupUpdates" -> getContactGroupUpdates(w, m, state)
      [] m.name = "getContacts" -> getContacts(w, m, state)
      [] m.name = "setContacts" -> setContacts(w, m, state)
      [] m.name = "getContactUpdates" -> getContactUpdates(w, m, state)
      [] OTHER -> w

\* ------------------------------------------------------------------ requests
ObjName == << <<"firstName", "Ann">> >>
ObjLast == << <<"lastName", "Lee">> >>
ObjBad  == << <<"bogus", "x">> >>
ObjFlag == << <<"isFlagged", "true">> >>
ObjImp  == << <<"x-importance", "5">> >>

NoIds == [abook |-> NULL, hasIds |-> FALSE, ids |-> <<>>]
Ids(x) == [abook |-> NULL, hasIds |-> TRUE, ids |-> <<x>>]
Since(has, s) == [abook |-> NULL, hasSince |-> has, sinceState |-> s, fetch |-> TRUE]
SinceIn(s, fetch, abook) ==
    [abook |-> abook, hasSince |-> TRUE, sinceState |-> s, fetch |-> fetch]

Group(name, hasMembers, members) ==
    [hasName |-> name # NULL, name |-> name, hasMembers |-> hasMembers,
     members |-> members, hasOthers |-> FALSE, others |-> <<>>]

\* the group object with otherAccountContactIds
GroupOthers(g, others) == [g EXCEPT !.hasOthers = TRUE, !.others = others]

NoSet == [hasIfInState |-> FALSE, ifInState |-> <<>>,
          create |-> <<>>, update |-> <<>>, destroy |-> <<>>]

Inv(name, tag, args) == [name |-> name, tag |-> tag, args |-> args]
CItem(k, o, io) == [key |-> k, abook |-> NULL, obj |-> o, io |-> io]
UItem(id, o) == [id |-> id, abook |-> NULL, obj |-> o, io |-> "ok"]
UItemIn(id, o, abook) == [id |-> id, abook |-> abook, obj |-> o, io |-> "ok"]
InAbook(abook) == [abook |-> abook, hasIds |-> FALSE, ids |-> <<>>]
IdsIn(ids, abook) == [abook |-> abook, hasIds |-> TRUE, ids |-> ids]
DItem(id) == [id |-> id, io |-> "ok"]
Create1(c) == [NoSet EXCEPT !.create = <<c>>]
Update1(u) == [NoSet EXCEPT !.update = <<u>>]
Destroy1(d) == [NoSet EXCEPT !.destroy = <<d>>]
IfIn(t, a) == [a EXCEPT !.hasIfInState = TRUE, !.ifInState = t]

\* no call of strip_spurious_deletes on its own
NoRock == [changed |-> <<>>, removed |-> <<>>, input |-> <<>>, i |-> 0,
           pc |-> "off"]

\* no value is taken through the mapper on its own
NoTrip == [pc |-> "off"]
NoPeer == [pc |-> "off", same |-> FALSE, n |-> 0]
NoReq == [taken |-> FALSE]

\* no event queue is in use
NoQueue == [pc |-> "off"]

\* another process holds the lock this request's mailbox_open_iwl asks for
peer_holds_inbox == peer.pc = "run" /\ peer.same

Init ==
    /\ rock = NoRock
    /\ trip = NoTrip
    /\ pc = "idle"
    /\ idx = 0
    /\ msg = [name |-> "", tag |-> NULL, args |-> NoIds, inv |-> 0]
    /\ locked = FALSE
    /\ idmap = EmptyMap
    /\ idmapmem = "none"
    /\ resp = <<>>
    /\ modseq = 8
    /\ store = <<>>
    /\ db = {}
    /\ nuuid = 0
    /\ ret = 0
    /\ body = <<>>
    /\ steps = 0
    /\ peer = NoPeer
    /\ reqstate = NoReq
    /\ opened = <<>>
    /\ mq = NoQueue

World == [store |-> store, db |-> db, modseq |-> modseq, nuuid |-> nuuid,
          idmap |-> idmap, resp |-> resp, locked |-> locked, r |-> 0,
          opened |-> opened]

\* meth_post up to the loop: construct the idmap, read and check the body,
\* start the response, lock the INBOX.  The three early returns leave
\* without passing done.
meth_post_begin ==
    /\ pc \in {"idle", "end"}
    /\ \E how \in {"readfail", "empty", "mediatype", "notarray", "lockfail", "ok"} :
        /\ idmap' = EmptyMap
        /\ resp' = <<>>
        /\ body' = <<>>
        /\ idx' = 0
        /\ msg' = [name |-> "", tag |-> NULL, args |-> NoIds, inv |-> 0]
        /\ how = "ok" => ~peer_holds_inbox
        /\ locked' = (how = "ok")
        /\ pc' = IF how = "ok" THEN "run" ELSE "end"
        /\ idmapmem' = IF how \in {"notarray", "lockfail"} THEN "freed" ELSE "live"
        /\ ret' = CASE how \in {"readfail", "empty", "notarray"} -> 400
                    [] how = "mediatype" -> 415
                    [] how = "lockfail" -> 500
                    [] OTHER -> 0
    /\ UNCHANGED <<modseq, store, db, nuuid, steps, rock, trip, peer, reqstate,
                   opened, mq>>

\* the cleanup without mailbox_close
done_keeplock(retval) ==
    /\ ret' = retval
    /\ pc' = "end"
    /\ idmapmem' = "freed"
    /\ locked' = locked

\* done: free_hash_table(&idmap), mailbox_close(&mailbox), return ret
done(retval) ==
    /\ ret' = retval
    /\ pc' = "end"
    /\ idmapmem' = "freed"
    /\ locked' = FALSE

\* a search that falls back to the first entry of the table
lookup_method_default(name) == IF name \in messages THEN name ELSE "getMailboxes"

\* the search of messages[] for the method name: NULL when it is not there
lookup_method(name) == IF name \in messages THEN name ELSE NULL

\* the return code of the handler ignored
handler_failed_never(r) == FALSE

\* if (r) { ...; ret = HTTP_SERVER_ERROR; goto done; }
handler_failed(r) == r # 0

\* what the handler did to the request, and the check of its return code
meth_post_handled(w) ==
    /\ resp' = w.resp
    /\ idmap' = w.idmap
    /\ modseq' = w.modseq
    /\ store' = w.store
    /\ db' = w.db
    /\ nuuid' = w.nuuid
    /\ body' = body
    /\ opened' = w.opened
    /\ IF handler_failed(w.r) THEN done(500)
       ELSE /\ locked' = w.locked
            /\ UNCHANGED <<ret, pc, idmapmem>>

\* req.state = state; r = mp->proc(&req); and the check of r
meth_post_call(m, state) ==
    meth_post_handled(
        proc(World, [m EXCEPT !.name = lookup_method(m.name)], state))

\* the body of the loop for the invocation m
meth_post_iter(m) ==
    /\ msg' = m
    /\ idx' = idx + 1
    /\ IF m.tag = NULL
       THEN UNCHANGED <<pc, locked, idmap, idmapmem, resp, modseq, store,
                        db, nuuid, ret, body, opened, mq>>
       ELSE IF lookup_method(m.name) = NULL
       THEN /\ resp' = Append(resp, ErrorResponse("unknownMethod", m))
            /\ UNCHANGED <<pc, locked, idmap, idmapmem, modseq, store,
                           db, nuuid, ret, body, opened, mq>>
       ELSE meth_post_call(m, fmt_llu(modseq))

\* one turn of the loop over the request array
meth_post_dispatch(Invs) ==
    /\ pc = "run"
    /\ ~reqstate.taken
    /\ steps < MaxSteps
    /\ steps' = steps + 1
    /\ rock' = rock
    /\ trip' = trip
    /\ peer' = peer
    /\ reqstate' = reqstate
    /\ mq' = mq
    /\ \E inv \in Invs : meth_post_iter(inv @@ [inv |-> idx + 1])

\* a loop left with the INBOX still locked
meth_post_unlock_keep ==
    /\ pc = "run"
    /\ ~reqstate.taken
    /\ pc' = "dump"
    /\ UNCHANGED <<locked, idx, msg, idmap, idmapmem, resp, modseq, store, db,
                   nuuid, ret, body, steps, rock, trip, peer, reqstate, opened, mq>>

\* after the loop: mailbox_unlock_index on the INBOX
meth_post_unlock ==
    /\ pc = "run"
    /\ ~reqstate.taken
    /\ locked' = FALSE
    /\ pc' = "dump"
    /\ UNCHANGED <<idx, msg, idmap, idmapmem, resp, modseq, store, db, nuuid,
                   ret, body, steps, rock, trip, peer, reqstate, opened, mq>>

\* json_dumps and write_body, then done
meth_post_write ==
    /\ pc = "dump"
    /\ \E dumps \in {"ok", "fail"} :
        IF dumps = "ok"
        THEN body' = <<200, resp>> /\ done(0)
        ELSE body' = <<>> /\ done(500)
    /\ UNCHANGED <<idx, msg, idmap, resp, modseq, store, db, nuuid, steps, rock,
                   trip, peer, reqstate, opened, mq>>

\* the requests of Spec: every way an invocation can end, for the executor
ExecInvocations ==
    {Inv("nope", "t1", NoIds)}
    \cup {Inv("getMailboxes", t, NoIds) : t \in {"t2", NULL}}
    \cup {Inv("getContacts", "t1", a) : a \in {NoIds, Ids(NonString)}}
    \cup {Inv("getContactUpdates", "t2", Since(h, fmt_llu(8))) : h \in BOOLEAN}
    \cup {Inv("setContacts", "t1", Create1(CItem("k1", o, "ok"))) :
             o \in {ObjName, ObjBad}}
    \cup {Inv("setContacts", "t1", Create1(CItem("k1", ObjName, "store")))}

Next ==
    \/ meth_post_begin
    \/ meth_post_dispatch(ExecInvocations)
    \/ meth_post_unlock
    \/ meth_post_write

Spec == Init /\ [][Next]_vars

\* the requests of SpecState: the state token and the ifInState gate
StateInvocations ==
    {Inv("setContacts", "t1",
         [NoSet EXCEPT !.create = <<CItem("k1", ObjName, "ok")>>,
                       !.update = <<UItem("u1", ObjLast)>>,
                       !.destroy = <<DItem("u2")>>])}
    \cup {Inv("setContacts", "t2", IfIn(t, Create1(CItem("k2", ObjName, "ok")))) :
             t \in {fmt_llu(modseq), fmt_llu(modseq - 1), <<NonString>>}}
    \cup {Inv("setContactGroups", "t2",
               IfIn(t, Create1(CItem("g1", Group("Friends", FALSE, <<>>), "ok")))) :
             t \in {fmt_llu(modseq), fmt_llu(modseq + 1)}}
    \cup {Inv(n, "t1", NoIds) : n \in {"getMailboxes", "getContacts", "getContactGroups"}}
    \cup {Inv(n, "t1", Since(TRUE, fmt_llu(8))) :
             n \in {"getContactUpdates", "getContactGroupUpdates"}}

NextState ==
    \/ meth_post_begin
    \/ meth_post_dispatch(StateInvocations)
    \/ meth_post_unlock
    \/ meth_post_write

SpecState == Init /\ [][NextState]_vars

\* the requests of SpecIds: creation keys and minted ids used as ids
IdInvocations ==
    {Inv("setContacts", "t1", Create1(CItem("k1", ObjName, "ok"))),
     Inv("setContacts", "t1", Create1(CItem("k2", ObjBad, "ok"))),
     Inv("setContactGroups", "t1",
         Create1(CItem("g1", Group("Friends", TRUE, <<"k1">>), "ok"))),
     Inv("setContactGroups", "t1",
         Update1(UItem("u2", Group(NULL, TRUE, <<"k1">>)))),
     Inv("getContactGroups", "t2", Ids("g1")),
     Inv("getContactGroups", "t2", Ids("u2"))}
    \cup {Inv("getContacts", "t2", Ids(x)) : x \in {"k1", "u1"}}
    \cup {Inv("setContacts", "t1", Update1(UItem(x, ObjLast))) : x \in {"k1", "u1"}}
    \cup {Inv("setContacts", "t1", Destroy1(DItem(x))) : x \in {"k1", "u1"}}

NextIds ==
    \/ meth_post_begin
    \/ meth_post_dispatch(IdInvocations)
    \/ meth_post_unlock
    \/ meth_post_write

SpecIds == Init /\ [][NextIds]_vars

\* the requests of SpecSet: set invocations of several items, with items
\* that fail validation, items the store refuses and ids of either kind
SetInvocations ==
    {Inv("setContacts", "t1",
         [NoSet EXCEPT !.create = <<CItem("k1", ObjName, "ok"),
                                    CItem("k2", ObjBad, "ok"),
                                    CItem("k3", ObjLast, "ok")>>]),
     Inv("setContacts", "t1",
         [NoSet EXCEPT !.create = <<CItem("k1", ObjName, "ok"),
                                    CItem("k2", ObjName, "store")>>]),
     Inv("setContacts", "t2",
         [NoSet EXCEPT !.create = <<CItem("k1", ObjName, "ok")>>,
                       !.update = <<UItem("u1", ObjLast), UItem("u2", ObjBad)>>,
                       !.destroy = <<DItem("u1")>>]),
     Inv("setContacts", "t2",
         [NoSet EXCEPT !.update = <<[UItem("u2", ObjLast) EXCEPT !.io = "parse"],
                                    UItem("u1", ObjLast)>>]),
     Inv("setContacts", "t2", [NoSet EXCEPT !.destroy = <<DItem("u1"), DItem("u1")>>]),
     Inv("setContactGroups", "t1",
         [NoSet EXCEPT !.create = <<CItem("g1", Group("Friends", FALSE, <<>>), "ok"),
                                    CItem("g2", Group(NULL, FALSE, <<>>), "ok"),
                                    CItem("g3", Group(NonString, FALSE, <<>>), "ok")>>]),
     Inv("setContactGroups", "t2",
         [NoSet EXCEPT !.update = <<UItem("u1", Group("Family", FALSE, <<>>)),
                                    UItem("u2", Group(NonString, FALSE, <<>>))>>]),
     Inv("setContactGroups", "t2",
         [NoSet EXCEPT !.update = <<[UItem("u1", Group("Family", FALSE, <<>>))
                                        EXCEPT !.io = "parse"]>>]),
     Inv("setContactGroups", "t2", Destroy1(DItem("u1")))}

NextSet ==
    \/ meth_post_begin
    \/ meth_post_dispatch(SetInvocations)
    \/ meth_post_unlock
    \/ meth_post_write

SpecSet == Init /\ [][NextSet]_vars

\* the requests of SpecUpd: creates, updates, moves and destroys, and the
\* updates methods since the first state, since the state before the current
\* one and since the current state, with and without the fetch flag
UpdInvocations ==
    {Inv("setContacts", "t1",
         [NoSet EXCEPT !.create = <<CItem("k1", ObjName, "ok"),
                                    CItem("k2", ObjLast, "ok")>>]),
     Inv("setContacts", "t1", Update1(UItem("u1", ObjLast))),
     Inv("setContacts", "t1", Update1(UItemIn("u1", ObjLast, "Work"))),
     Inv("setContacts", "t1", Destroy1(DItem("u1"))),
     Inv("setContactGroups", "t1",
         Create1(CItem("g1", Group("Friends", FALSE, <<>>), "ok"))),
     Inv("getContactUpdates", "t2", SinceIn(fmt_llu(8), TRUE, "Work"))}
    \cup {Inv("getContactUpdates", "t2", SinceIn(x, TRUE, NULL)) :
             x \in {fmt_llu(modseq), fmt_llu(modseq - 1)}}
    \cup {Inv(n, "t2", SinceIn(fmt_llu(8), f, NULL)) :
             n \in {"getContactUpdates", "getContactGroupUpdates"}, f \in BOOLEAN}

NextUpd ==
    \/ meth_post_begin
    \/ meth_post_dispatch(UpdInvocations)
    \/ meth_post_unlock
    \/ meth_post_write

SpecUpd == Init /\ [][NextUpd]_vars

\* the requests of SpecMove: updates that name an address book, updates of
\* the flag and the importance alone, and gets of one address book
MoveInvocations ==
    {Inv("setContacts", "t1", Create1(CItem("k1", ObjName, "ok"))),
     Inv("setContacts", "t1", Update1(UItemIn("u1", ObjLast, "Work"))),
     Inv("setContacts", "t1", Update1(UItemIn("u1", ObjFlag, "Default"))),
     Inv("setContacts", "t1", Update1(UItem("u1", ObjImp))),
     Inv("setContacts", "t1", Destroy1(DItem("u1"))),
     Inv("setContactGroups", "t1",
         Create1(CItem("g1", Group("Friends", FALSE, <<>>), "ok"))),
     Inv("setContactGroups", "t1",
         Update1(UItemIn("u2", Group("Family", FALSE, <<>>), "Work"))),
     Inv("setContactGroups", "t1", Destroy1(DItem("u2"))),
     Inv("getContactGroups", "t2", InAbook("Work"))}
    \cup {Inv("getContacts", "t2", InAbook(a)) : a \in {"Default", "Work"}}

NextMove ==
    \/ meth_post_begin
    \/ meth_post_dispatch(MoveInvocations)
    \/ meth_post_unlock
    \/ meth_post_write

SpecMove == Init /\ [][NextMove]_vars

\* the requests of SpecGet: gets with several ids, of cards that are there,
\* that were moved or destroyed, of the other kind and of no card at all
GetInvocations ==
    {Inv("setContacts", "t1",
         [NoSet EXCEPT !.create = <<CItem("k1", ObjName, "ok"),
                                    CItem("k2", ObjLast, "ok")>>]),
     Inv("setContactGroups", "t1",
         Create1(CItem("g1", Group("Friends", FALSE, <<>>), "ok"))),
     Inv("setContacts", "t1", Update1(UItemIn("u1", ObjLast, "Work"))),
     Inv("setContacts", "t1", Destroy1(DItem("u2"))),
     Inv("getContacts", "t2", NoIds),
     Inv("getContacts", "t2", IdsIn(<<>>, NULL)),
     Inv("getContactGroups", "t2", IdsIn(<<"u1", "u3", "u9">>, NULL))}
    \cup {Inv("getContacts", "t2", IdsIn(<<"u2", "u1", "u3", "u9">>, a)) :
             a \in {NULL, "Work"}}

NextGet ==
    \/ meth_post_begin
    \/ meth_post_dispatch(GetInvocations)
    \/ meth_post_unlock
    \/ meth_post_write

SpecGet == Init /\ [][NextGet]_vars

\* ---- a batch next to another process
\* The loop of meth_post with the read of the modseq (lines 249-253) and the
\* call of the handler (line 264) as two steps, and another process that
\* opens mailboxes, writes to them and closes them: of this user (a second
\* batch, a CardDAV or an IMAP writer) or of another user.

\* the invocations the loop calls a handler for
Handled(Invs) == {inv \in Invs : inv.tag # NULL /\ lookup_method(inv.name) # NULL}

\* a loop that reads the modseq once, for its first invocation, and hands
\* the same state to every handler
meth_post_readmodseq_once(Invs) ==
    /\ pc = "run"
    /\ ~reqstate.taken
    /\ steps < MaxSteps
    /\ \E inv \in Handled(Invs) :
          reqstate' = [taken |-> TRUE, m |-> inv @@ [inv |-> idx + 1],
                       state |-> IF Len(resp) > 0 /\ IsSetResponse(resp[1])
                                 THEN resp[1].oldState ELSE fmt_llu(modseq)]
    /\ UNCHANGED <<pc, idx, msg, locked, idmap, idmapmem, resp, modseq, store,
                   db, nuuid, ret, body, steps, rock, trip, peer, opened, mq>>

\* modseq_t modseq = mboxname_readmodseq(inboxname) for the invocation taken
meth_post_readmodseq(Invs) ==
    /\ pc = "run"
    /\ ~reqstate.taken
    /\ steps < MaxSteps
    /\ \E inv \in Handled(Invs) :
          reqstate' = [taken |-> TRUE, m |-> inv @@ [inv |-> idx + 1],
                       state |-> fmt_llu(modseq)]
    /\ UNCHANGED <<pc, idx, msg, locked, idmap, idmapmem, resp, modseq, store,
                   db, nuuid, ret, body, steps, rock, trip, peer, opened, mq>>

\* r = mp->proc(&req) with the state read before
meth_post_proc ==
    /\ pc = "run"
    /\ reqstate.taken
    /\ steps' = steps + 1
    /\ msg' = reqstate.m
    /\ idx' = idx + 1
    /\ meth_post_call(reqstate.m, reqstate.state)
    /\ reqstate' = NoReq
    /\ UNCHANGED <<rock, trip, peer, mq>>

\* a writer to one of this user's mailboxes waits for the batch that holds
\* the user's INBOX
peer_may_write == ~locked

\* the other process opens its mailbox for writing
peer_begin(same) ==
    /\ peer.pc = "idle"
    /\ same => peer_may_write
    /\ peer' = [peer EXCEPT !.pc = "run", !.same = same]
    /\ UNCHANGED <<pc, idx, msg, locked, idmap, idmapmem, resp, modseq, store,
                   db, nuuid, ret, body, steps, rock, trip, reqstate, opened, mq>>

\* the other process writes: a write to a mailbox of this user takes the
\* user's next modseq
peer_write ==
    /\ peer.pc = "run"
    /\ steps < MaxSteps
    /\ steps' = steps + 1
    /\ peer' = [peer EXCEPT !.n = @ + 1]
    /\ modseq' = IF peer.same THEN modseq + 1 ELSE modseq
    /\ UNCHANGED <<pc, idx, msg, locked, idmap, idmapmem, resp, store, db,
                   nuuid, ret, body, rock, trip, reqstate, opened, mq>>

\* the other process closes its mailbox
peer_end ==
    /\ peer.pc = "run"
    /\ peer' = [peer EXCEPT !.pc = "idle", !.same = FALSE]
    /\ UNCHANGED <<pc, idx, msg, locked, idmap, idmapmem, resp, modseq, store,
                   db, nuuid, ret, body, steps, rock, trip, reqstate, opened, mq>>

InitConc ==
    /\ peer = [pc |-> "idle", same |-> FALSE, n |-> 0]
    /\ reqstate = NoReq
    /\ opened = <<>>
    /\ mq = NoQueue
    /\ rock = NoRock
    /\ trip = NoTrip
    /\ pc = "idle"
    /\ idx = 0
    /\ msg = [name |-> "", tag |-> NULL, args |-> NoIds, inv |-> 0]
    /\ locked = FALSE
    /\ idmap = EmptyMap
    /\ idmapmem = "none"
    /\ resp = <<>>
    /\ modseq = 8
    /\ store = <<>>
    /\ db = {}
    /\ nuuid = 0
    /\ ret = 0
    /\ body = <<>>
    /\ steps = 0

\* the requests of SpecConc
ConcInvocations ==
    {Inv("nope", "t1", NoIds), Inv("getContacts", NULL, NoIds),
     Inv("getContacts", "t1", NoIds)}
    \cup {Inv("setContacts", "t1", Create1(CItem("k1", ObjName, how))) :
             how \in {"ok", "store"}}
    \cup {Inv("setContacts", "t2", IfIn(t, Update1(UItem("u1", ObjLast)))) :
             t \in {fmt_llu(modseq), fmt_llu(modseq - 1)}}

NextConc ==
    \/ meth_post_begin
    \/ meth_post_dispatch(ConcInvocations \ Handled(ConcInvocations))
    \/ meth_post_readmodseq(ConcInvocations)
    \/ meth_post_proc
    \/ meth_post_unlock
    \/ meth_post_write
    \/ \E same \in BOOLEAN : peer_begin(same)
    \/ peer_write
    \/ peer_end

SpecConc == InitConc /\ [][NextConc]_vars

\* ---- the address-book mailboxes of the set handlers
\* the requests of SpecMbox: creates in two address books, moves that end in
\* each way an update can end, destroys across address books
MboxInvocations ==
    {Inv("setContacts", "t1",
         [NoSet EXCEPT !.create = <<CItem("k1", ObjName, "ok"),
                                    [CItem("k2", ObjName, "ok") EXCEPT
                                        !.abook = "Work"]>>]),
     Inv("setContacts", "t1",
         [NoSet EXCEPT !.update = <<UItemIn("u1", ObjLast, "Work"),
                                    UItemIn("u2", ObjBad, "Default")>>,
                       !.destroy = <<DItem("u2"), DItem("u1")>>]),
     Inv("setContacts", "t1", Update1(UItemIn("u2", ObjFlag, "Default"))),
     Inv("setContacts", "t1",
         IfIn(fmt_llu(0), Update1(UItemIn("u1", ObjLast, "Work")))),
     Inv("setContactGroups", "t1",
         Create1(CItem("g1", Group("Friends", FALSE, <<>>), "ok"))),
     Inv("setContactGroups", "t1",
         [NoSet EXCEPT !.update =
              <<UItemIn("u1", Group(NonString, FALSE, <<>>), "Work"),
                UItemIn("u1", Group("Family", FALSE, <<>>), "Work")>>])}
    \cup {Inv("setContacts", "t2",
               Update1([UItemIn("u1", ObjLast, "Work") EXCEPT !.io = io])) :
             io \in {"open", "opennew", "parse", "store", "remove"}}
    \cup {Inv("setContactGroups", "t2",
               Update1([UItemIn("u1", Group("Family", FALSE, <<>>), "Work")
                           EXCEPT !.io = io])) :
             io \in {"opennew", "parse", "remove"}}

NextMbox ==
    \/ meth_post_begin
    \/ meth_post_dispatch(MboxInvocations)
    \/ meth_post_unlock
    \/ meth_post_write

SpecMbox == Init /\ [][NextMbox]_vars

\* ---- destroy arrays
\* the requests of SpecDestroy: destroy arrays with ids of live cards, ids
\* of no card and entries that are not strings
DestroyInvocations ==
    {Inv("setContacts", "t1",
         [NoSet EXCEPT !.create = <<CItem("k1", ObjName, "ok"),
                                    CItem("k2", ObjLast, "ok")>>]),
     Inv("setContactGroups", "t1",
         Create1(CItem("g1", Group("Friends", FALSE, <<>>), "ok")))}
    \cup {Inv(n, "t2", [NoSet EXCEPT !.destroy = d]) :
             n \in {"setContacts", "setContactGroups"},
             d \in {<<DItem("u1")>>, <<DItem("u1"), DItem("u9")>>,
                    <<DItem(NonString)>>,
                    <<DItem("u2"), DItem(NonString), DItem("u3")>>}}

NextDestroy ==
    \/ meth_post_begin
    \/ meth_post_dispatch(DestroyInvocations)
    \/ meth_post_unlock
    \/ meth_post_write

SpecDestroy == Init /\ [][NextDestroy]_vars

\* ---- strip_spurious_deletes on its own, on every pair of lists up to MaxLen
StripUids == {"u1", "u2", "u3"}
Lists(S, n) == UNION {[1..k -> S] : k \in 0..n}

InitStrip ==
    /\ \E c \in Lists(StripUids, MaxLen), d \in Lists(StripUids, MaxLen) :
          rock = [changed |-> c, removed |-> d, input |-> d, i |-> 0,
                  pc |-> "loop"]
    /\ trip = NoTrip
    /\ pc = "idle"
    /\ idx = 0
    /\ msg = [name |-> "", tag |-> NULL, args |-> NoIds, inv |-> 0]
    /\ locked = FALSE
    /\ idmap = EmptyMap
    /\ idmapmem = "none"
    /\ resp = <<>>
    /\ modseq = 8
    /\ store = <<>>
    /\ db = {}
    /\ nuuid = 0
    /\ ret = 0
    /\ body = <<>>
    /\ steps = 0
    /\ peer = NoPeer
    /\ reqstate = NoReq
    /\ opened = <<>>
    /\ mq = NoQueue

\* what the body of the loop and the i++ after it leave in the rock
strip_turn(b) == rock' = [rock EXCEPT !.removed = b.removed, !.i = uinc(b.i)]

\* one turn of the outer loop: i < json_array_size(removed)
strip_step ==
    /\ rock.pc = "loop"
    /\ rock.i < Len(rock.removed)
    /\ strip_turn(strip_body(rock.removed, rock.changed, rock.i))
    /\ UNCHANGED <<pc, idx, msg, locked, idmap, idmapmem, resp, modseq, store,
                   db, nuuid, ret, body, steps, trip, peer, reqstate, opened, mq>>

\* the loop condition fails: strip_spurious_deletes returns
strip_return ==
    /\ rock.pc = "loop"
    /\ ~(rock.i < Len(rock.removed))
    /\ rock' = [rock EXCEPT !.pc = "done"]
    /\ UNCHANGED <<pc, idx, msg, locked, idmap, idmapmem, resp, modseq, store,
                   db, nuuid, ret, body, steps, trip, peer, reqstate, opened, mq>>

NextStrip ==
    \/ strip_step
    \/ strip_return

\* the loop is straight-line code: it takes its next turn whenever it can
SpecStrip ==
    InitStrip /\ [][NextStrip]_vars /\ WF_vars(strip_step) /\ WF_vars(strip_return)

\* ---- a birthday taken through _date_to_card and _date_to_jmap on its own
\* the years, months and days the date is built from: the ends of the ranges
\* the code tests, on both sides
Years == {0, 1, 1604, 1605, 1606, 1999, 2000, 9999}
Months == 0..13
Days == 0..32

InitDate ==
    /\ \E y \in Years, m \in Months, d \in Days,
          old \in {NoEntry, DateEntry(1999, 12, 31, <<>>)} :
          trip = [pc |-> "write", y |-> y, m |-> m, d |-> d,
                  jmap |-> fmt_date(y, m, d), r |-> 0, entry |-> old,
                  out |-> <<>>]
    /\ rock = NoRock
    /\ pc = "idle"
    /\ idx = 0
    /\ msg = [name |-> "", tag |-> NULL, args |-> NoIds, inv |-> 0]
    /\ locked = FALSE
    /\ idmap = EmptyMap
    /\ idmapmem = "none"
    /\ resp = <<>>
    /\ modseq = 8
    /\ store = <<>>
    /\ db = {}
    /\ nuuid = 0
    /\ ret = 0
    /\ body = <<>>
    /\ steps = 0
    /\ peer = NoPeer
    /\ reqstate = NoReq
    /\ opened = <<>>
    /\ mq = NoQueue

\* what the call of _date_to_card leaves on the card
date_written(c) ==
    trip' = [trip EXCEPT !.r = c.r, !.entry = c.entry, !.pc = "read"]

\* the mapper writes the birthday to the card
date_write ==
    /\ trip.pc = "write"
    /\ date_written(_date_to_card(trip.entry, trip.jmap))
    /\ UNCHANGED <<pc, idx, msg, locked, idmap, idmapmem, resp, modseq, store,
                   db, nuuid, ret, body, steps, rock, peer,
                   reqstate, opened, mq>>

\* getcontacts_cb reads the birthday of the card
date_read ==
    /\ trip.pc = "read"
    /\ trip' = [trip EXCEPT !.out = _date_to_jmap(trip.entry), !.pc = "done"]
    /\ UNCHANGED <<pc, idx, msg, locked, idmap, idmapmem, resp, modseq, store,
                   db, nuuid, ret, body, steps, rock, peer,
                   reqstate, opened, mq>>

NextDate ==
    \/ date_write
    \/ date_read

SpecDate == InitDate /\ [][NextDate]_vars

\* ---- a contact taken through _json_to_card and getcontacts_cb on its own
Addr(type, label, street) ==
    [type |-> type, label |-> label, street |-> street, locality |-> "Town",
     region |-> "North", postcode |-> "6011", country |-> "NZ"]

Item(type, label, value) == [type |-> type, label |-> label, value |-> value]

EmailItem(type, label, value, isDefault) ==
    [type |-> type, label |-> label, value |-> value, isDefault |-> isDefault]

\* the members a contact object is made of, emails apart
Fields ==
    << <<"prefix", "Dr">>, <<"firstName", "Ann">>, <<"lastName", "Lee">>,
       <<"suffix", "Jr">>, <<"nickname", "Annie">>, <<"company", "Acme">>,
       <<"department", "Lab">>, <<"jobTitle", "Boss">>, <<"notes", "hello">>,
       <<"birthday", fmt_date(0, 3, 15)>>,
       <<"addresses", <<Addr("home", "Bach", "1 High St"),
                        Addr("other", NULL, "2 Low St")>> >>,
       <<"phones", <<Item("mobile", NULL, "021"), Item("other", "Boat", "022"),
                     Item("fax", NULL, "023")>> >>,
       <<"online", <<Item("uri", "Home", "http://x"),
                     Item("username", "Skype", "ann"),
                     Item("username", "GitHub", "annl"),
                     Item("username", NULL, "anon"),
                     Item("username", "Blog", "annb")>> >> >>

\* the emails of a contact object: none, a default among them, no default
Emails ==
    << <<>>,
       << <<"emails", <<EmailItem("personal", NULL, "a@x", NULL),
                        EmailItem("work", "Office", "b@x", "true")>> >> >>,
       << <<"emails", <<EmailItem("other", NULL, "c@x", "false"),
                        EmailItem("work", NULL, "d@x", NULL)>> >> >> >>

\* the object with the members of Fields at the positions in S, in order
RECURSIVE Pick(_, _)
Pick(i, S) ==
    IF i > Len(Fields) THEN <<>>
    ELSE (IF i \in S THEN <<Fields[i]>> ELSE <<>>) \o Pick(i + 1, S)

InitCard ==
    /\ \E S \in SUBSET (1..Len(Fields)), e \in 1..Len(Emails) :
          trip = [pc |-> "write", obj |-> Pick(1, S) \o Emails[e],
                  card |-> NewCard("u1"), flagged |-> FALSE, imp |-> NULL,
                  r |-> 0, out |-> <<>>]
    /\ rock = NoRock
    /\ pc = "idle"
    /\ idx = 0
    /\ msg = [name |-> "", tag |-> NULL, args |-> NoIds, inv |-> 0]
    /\ locked = FALSE
    /\ idmap = EmptyMap
    /\ idmapmem = "none"
    /\ resp = <<>>
    /\ modseq = 8
    /\ store = <<>>
    /\ db = {}
    /\ nuuid = 0
    /\ ret = 0
    /\ body = <<>>
    /\ steps = 0
    /\ peer = NoPeer
    /\ reqstate = NoReq
    /\ opened = <<>>
    /\ mq = NoQueue

\* what _json_to_card leaves of the card of a create
card_written(c) ==
    trip' = [trip EXCEPT !.card = c.card, !.flagged = c.flagged, !.imp = c.imp,
                         !.r = c.r, !.pc = "read"]

\* setContacts maps the object of a create item to a card
card_write ==
    /\ trip.pc = "write"
    /\ card_written(_json_to_card(trip.card, trip.obj, FALSE, NULL))
    /\ UNCHANGED <<pc, idx, msg, locked, idmap, idmapmem, resp, modseq, store,
                   db, nuuid, ret, body, steps, rock, peer,
                   reqstate, opened, mq>>

\* getcontacts_cb maps the stored card to an object
card_read ==
    /\ trip.pc = "read"
    /\ trip.r = 0
    /\ trip' = [trip EXCEPT
                   !.out = getcontacts_obj([vuid |-> trip.card.uid, mbox |-> "Default"],
                                           [card |-> trip.card,
                                            flagged |-> trip.flagged,
                                            imp |-> trip.imp]),
                   !.pc = "done"]
    /\ UNCHANGED <<pc, idx, msg, locked, idmap, idmapmem, resp, modseq, store,
                   db, nuuid, ret, body, steps, rock, peer,
                   reqstate, opened, mq>>

NextCard ==
    \/ card_write
    \/ card_read

SpecCard == InitCard /\ [][NextCard]_vars


\* ------------------------------------------- objects the mapper is to refuse
\* a string where the key takes a JSON string, but of another JSON type
ObjTyped == << <<"firstName", NonString>> >>
\* a JSON string where isFlagged takes a boolean
ObjFlagStr == << <<"isFlagged", "Ann">> >>
\* a key the mapper knows in front of one it does not
ObjFlagBad == << <<"isFlagged", "true">>, <<"bogus", "x">> >>

\* the requests of SpecReject: contact creates and updates whose object has
\* an unknown key or a value of the wrong type, in front of items that are
\* well formed, and updates that set the flag and the importance
RejectInvocations ==
    {Inv("setContacts", "t1", Create1(CItem("k1", ObjName, "ok"))),
     Inv("setContacts", "t1",
         [NoSet EXCEPT !.create = <<CItem("k1", ObjBad, "ok"),
                                    CItem("k2", ObjName, "ok")>>]),
     Inv("setContacts", "t1",
         [NoSet EXCEPT !.create = <<CItem("k1", ObjTyped, "ok"),
                                    CItem("k2", ObjLast, "ok")>>]),
     Inv("setContacts", "t1", Create1(CItem("k1", ObjFlagStr, "ok"))),
     Inv("setContacts", "t2", Update1(UItem("u1", ObjFlagBad))),
     Inv("setContacts", "t2",
         [NoSet EXCEPT !.update = <<UItem("u1", ObjTyped), UItem("u2", ObjLast)>>]),
     Inv("setContacts", "t2", Update1(UItem("u1", ObjFlag))),
     Inv("setContacts", "t2", Update1(UItem("u1", ObjFlagStr))),
     Inv("setContacts", "t2", Update1(UItem("u1", ObjImp)))}

NextReject ==
    \/ meth_post_begin
    \/ meth_post_dispatch(RejectInvocations)
    \/ meth_post_unlock
    \/ meth_post_write

SpecReject == Init /\ [][NextReject]_vars


\* ------------------------------------------------------ the members of groups
\* the requests of SpecGroup: groups created and updated with members that
\* were created in the batch, that are in the store, and that are neither;
\* with members of other accounts; and updates without contactIds
GroupInvocations ==
    {Inv("setContacts", "t1", Create1(CItem("k1", ObjName, "ok"))),
     Inv("setContactGroups", "t1",
         Create1(CItem("g1", Group("Friends", TRUE, <<"k1">>), "ok"))),
     Inv("setContactGroups", "t1",
         Create1(CItem("g1", Group("Friends", TRUE, <<"nope">>), "ok"))),
     Inv("setContactGroups", "t1",
         Create1(CItem("g1", GroupOthers(Group("Friends", TRUE, <<"u1">>),
                                         << <<"bob", "nope">> >>), "ok"))),
     Inv("setContactGroups", "t1",
         Create1(CItem("g1", GroupOthers(Group("Friends", FALSE, <<>>),
                                         << <<"bob", NonString>> >>), "ok")))}
    \cup {Inv("setContactGroups", "t2", Update1(UItem(x, o))) :
            x \in {"u1", "u2"},
            o \in {Group("Family", FALSE, <<>>),
                   Group(NULL, TRUE, <<"nope">>),
                   Group(NULL, TRUE, <<"u1", "k1">>),
                   GroupOthers(Group(NULL, FALSE, <<>>), << <<"bob", "u9">> >>)}}

NextGroup ==
    \/ meth_post_begin
    \/ meth_post_dispatch(GroupInvocations)
    \/ meth_post_unlock
    \/ meth_post_write

SpecGroup == Init /\ [][NextGroup]_vars


\* ---- a card created from one object and updated with another, on its own
\* the values an update gives the members of a contact object
NewFields ==
    << <<"prefix", "Mr">>, <<"firstName", "Bob">>, <<"lastName", "Ray">>,
       <<"suffix", "Sr">>, <<"nickname", "Bobby">>, <<"company", "Bolt">>,
       <<"department", "Ops">>, <<"jobTitle", "Temp">>, <<"notes", "bye">>,
       <<"birthday", fmt_date(2000, 1, 2)>>,
       <<"addresses", <<Addr("work", NULL, "3 Mid St")>> >>,
       <<"phones", <<Item("home", NULL, "024")>> >>,
       <<"online", <<Item("uri", NULL, "http://y")>> >>,
       <<"emails", <<EmailItem("work", NULL, "e@x", NULL)>> >>,
       <<"emails", <<>> >>,
       <<"emails", <<EmailItem("other", NULL, "f@x", NULL),
                     EmailItem("work", NULL, "g@x", "true"),
                     EmailItem("personal", NULL, "h@x", "true")>> >>,
       <<"isFlagged", "true">>, <<"x-importance", "5">>,
       <<"bogus", "x">>, <<"firstName", NonString>> >>

\* the objects of the updates: one member each, and two of them with two
PatchObjs ==
    {<<NewFields[i]>> : i \in 1..Len(NewFields)}
    \cup {<<NewFields[5], NewFields[9]>>, <<NewFields[3], NewFields[14]>>}

\* the objects the contact is created from
BaseObjs ==
    {Pick(1, S) \o Emails[e] :
        S \in {{}, {5}, {2}, {1, 2, 3, 4}, {6, 7, 8}, 1..Len(Fields)},
        e \in 1..Len(Emails)}

\* the objects the group is created from and updated with
BaseGroups ==
    {Group("Friends", FALSE, <<>>), Group("Friends", TRUE, <<"u1", "u2">>),
     GroupOthers(Group("Friends", TRUE, <<"u1">>), << <<"bob", "u9">> >>)}

PatchGroups ==
    {Group("Family", FALSE, <<>>), Group(NULL, TRUE, <<"u3">>),
     Group(NULL, TRUE, <<>>),
     GroupOthers(Group(NULL, FALSE, <<>>), << <<"amy", "u8">> >>),
     GroupOthers(Group("Family", TRUE, <<"u3", "u1">>), << <<"amy", "u8">> >>)}

PatchCases ==
    {[kind |-> "contact", obj |-> o, patch |-> p] :
        o \in BaseObjs, p \in PatchObjs}
    \cup {[kind |-> "group", obj |-> o, patch |-> p] :
            o \in BaseGroups, p \in PatchGroups}

InitPatch ==
    /\ \E c \in PatchCases :
          trip = [pc |-> "create", kind |-> c.kind, obj |-> c.obj,
                  patch |-> c.patch, card |-> NewCard("u1"),
                  old |-> NewCard("u1"), flagged |-> FALSE, imp |-> NULL,
                  oldflagged |-> FALSE, oldimp |-> NULL, r |-> 0, out |-> <<>>]
    /\ rock = NoRock
    /\ pc = "idle"
    /\ idx = 0
    /\ msg = [name |-> "", tag |-> NULL, args |-> NoIds, inv |-> 0]
    /\ locked = FALSE
    /\ idmap = EmptyMap
    /\ idmapmem = "none"
    /\ resp = <<>>
    /\ modseq = 8
    /\ store = <<>>
    /\ db = {}
    /\ nuuid = 0
    /\ ret = 0
    /\ body = <<>>
    /\ steps = 0
    /\ peer = NoPeer
    /\ reqstate = NoReq
    /\ opened = <<>>
    /\ mq = NoQueue

\* the card of a create item that the mapper took: the item is stored
patch_created(c) ==
    trip' = [trip EXCEPT !.card = c.card, !.flagged = c.flagged, !.imp = c.imp,
                         !.r = c.r,
                         !.pc = IF c.r = 0 THEN "update" ELSE "done"]

\* the create loops map the object of the item to a new card
patch_create ==
    /\ trip.pc = "create"
    /\ IF trip.kind = "contact"
       THEN patch_created(_json_to_card(NewCard("u1"), trip.obj, FALSE, NULL))
       ELSE patch_created([card |-> GroupCard([idmap |-> EmptyMap], trip.obj, "u1"),
                           flagged |-> FALSE, imp |-> NULL, r |-> 0])
    /\ UNCHANGED <<pc, idx, msg, locked, idmap, idmapmem, resp, modseq, store,
                   db, nuuid, ret, body, steps, rock, peer,
                   reqstate, opened, mq>>

\* what an update item leaves stored: the card, the flag and the annotation
\* the mapper returned, or what was there when the mapper refused the object
patch_updated(c) ==
    trip' = [trip EXCEPT !.old = trip.card, !.oldflagged = trip.flagged,
                         !.oldimp = trip.imp,
                         !.card = IF c.r = -1 THEN @ ELSE c.card,
                         !.flagged = IF c.r = -1 THEN @ ELSE c.flagged,
                         !.imp = IF c.r = -1 THEN @ ELSE c.imp,
                         !.r = c.r, !.pc = "read"]

\* the update loops map the object of the item onto the stored card
patch_update ==
    /\ trip.pc = "update"
    /\ IF trip.kind = "contact"
       THEN patch_updated(_json_to_card(trip.card, trip.patch, trip.flagged,
                                        trip.imp))
       ELSE patch_updated([card |-> GroupUpdateCard([idmap |-> EmptyMap],
                                                    trip.patch, trip.card),
                           flagged |-> FALSE, imp |-> NULL, r |-> 0])
    /\ UNCHANGED <<pc, idx, msg, locked, idmap, idmapmem, resp, modseq, store,
                   db, nuuid, ret, body, steps, rock, peer,
                   reqstate, opened, mq>>

\* getcontacts_cb and getgroups_cb map the stored card to an object
patch_read ==
    /\ trip.pc = "read"
    /\ trip' = [trip EXCEPT
                   !.out = IF trip.kind = "contact"
                           THEN getcontacts_obj([vuid |-> trip.card.uid,
                                                 mbox |-> "Default"],
                                                [card |-> trip.card,
                                                 flagged |-> trip.flagged,
                                                 imp |-> trip.imp])
                           ELSE getgroups_obj([vuid |-> trip.card.uid,
                                               mbox |-> "Default"],
                                              [card |-> trip.card]),
                   !.pc = "done"]
    /\ UNCHANGED <<pc, idx, msg, locked, idmap, idmapmem, resp, modseq, store,
                   db, nuuid, ret, body, steps, rock, peer,
                   reqstate, opened, mq>>

NextPatch ==
    \/ patch_create
    \/ patch_update
    \/ patch_read

SpecPatch == InitPatch /\ [][NextPatch]_vars


\* ---- a birthday value of any form given to _date_to_card on its own
\* strings that are not four digits, a dash, two digits, a dash, two digits:
\* the empty string, a part too short, a character too many, another
\* separator, a letter or a sign among the digits
Malformed ==
    {<<>>,
     <<"2", "0", "0", "0", "-", "1", "-", "0", "2">>,
     <<"2", "0", "0", "0", "-", "0", "1", "-", "0", "2", "1">>,
     <<"2", "0", "0", "0", "-", "0", "1", "-", "0", "2", " ">>,
     <<"1", "0", "0", "0", "0", "-", "0", "1", "-", "0", "2">>,
     <<"2", "0", "0", "0", "/", "0", "1", "/", "0", "2">>,
     <<"2", "0", "0", "0", "0", "1", "-", "-", "0", "2">>,
     <<"2", "0", "a", "0", "-", "0", "1", "-", "0", "2">>,
     <<"2", "0", "0", "0", "-", "0", "1", "-", "0", "x">>,
     <<"2", "0", "0", "0", "-", "-", "1", "-", "0", "2">>,
     <<"-", "0", "0", "1", "-", "0", "1", "-", "0", "2">>}

\* the values of the birthday key: every string printed from a year, a
\* month and a day of the ranges above, and the malformed ones
BirthdayInputs ==
    {[form |-> TRUE, y |-> y, m |-> m, d |-> d, jmap |-> fmt_date(y, m, d)] :
        y \in Years, m \in Months, d \in Days}
    \cup {[form |-> FALSE, y |-> 0, m |-> 0, d |-> 0, jmap |-> s] :
            s \in Malformed}

InitBirthday ==
    /\ \E b \in BirthdayInputs,
          old \in {NoEntry, DateEntry(1999, 12, 31, <<>>),
                   DateEntry(1604, 1, 5, << <<"x-apple-omit-year", "1604">>,
                                            <<"x-fm-no-month", "1">> >>)} :
          trip = [pc |-> "write", form |-> b.form, y |-> b.y, m |-> b.m,
                  d |-> b.d, jmap |-> b.jmap, r |-> 0, entry |-> old,
                  old |-> old, out |-> <<>>]
    /\ rock = NoRock
    /\ pc = "idle"
    /\ idx = 0
    /\ msg = [name |-> "", tag |-> NULL, args |-> NoIds, inv |-> 0]
    /\ locked = FALSE
    /\ idmap = EmptyMap
    /\ idmapmem = "none"
    /\ resp = <<>>
    /\ modseq = 8
    /\ store = <<>>
    /\ db = {}
    /\ nuuid = 0
    /\ ret = 0
    /\ body = <<>>
    /\ steps = 0
    /\ peer = NoPeer
    /\ reqstate = NoReq
    /\ opened = <<>>
    /\ mq = NoQueue

SpecBirthday == InitBirthday /\ [][NextDate]_vars


\* ------------------------------------------------ mailbox events (mboxevent.c)
MESSAGE_EVENTS ==
    {"MessageAppend", "MessageExpire", "MessageExpunge", "MessageNew",
     "vnd.cmu.MessageCopy", "vnd.cmu.MessageMove"}
FLAGS_EVENTS == {"FlagsSet", "FlagsClear", "MessageRead", "MessageTrash"}
MAILBOX_EVENTS == {"MailboxCreate", "MailboxDelete", "MailboxRename", "AclChange"}
SUBS_EVENTS == {"MailboxSubscribe", "MailboxUnSubscribe"}
QUOTA_EVENTS == {"QuotaExceed", "QuotaWithin", "QuotaChange"}

\* what mboxevent_init read from the configuration: every group of events
\* but the subscriptions, the modseq as the one extra parameter, \Draft
\* excluded from the flags, and the mailbox with the special use \Junk
\* excluded from notification
enabled_events ==
    MESSAGE_EVENTS \cup QUOTA_EVENTS \cup FLAGS_EVENTS \cup MAILBOX_EVENTS
    \cup {"Login", "Logout"}
extra_params == {"modseq"}
excluded_flags == {"\\Draft"}
mboxevent_enabled_for_mailbox(mailbox) == mailbox # "Spam"

\* the parameters of event_template the events of the model can have, in the
\* order of the template
EventParams ==
    <<"serverAddress", "mailboxID", "uri", "modseq", "diskQuota", "diskUsed",
      "maxMessages", "messages", "uidset", "flagNames", "pid", "user">>

\* the last line of mboxevent_expected_param
message_param(type) == type \in MESSAGE_EVENTS \cup FLAGS_EVENTS

mboxevent_expected_param(type, param) ==
    CASE param = "diskQuota" -> type \in QUOTA_EVENTS
      [] param = "diskUsed" ->
             \/ type \in {"QuotaExceed", "QuotaWithin"}
             \/ "diskUsed" \in extra_params /\ type = "QuotaChange"
      [] param = "flagNames" ->
             \/ type \in {"FlagsSet", "FlagsClear"}
             \/ "flagNames" \in extra_params
                /\ type \in {"MessageAppend", "MessageNew"}
      [] param = "mailboxID" -> type \in MAILBOX_EVENTS
      [] param = "maxMessages" -> type \in QUOTA_EVENTS
      [] param = "messages" ->
             IF type \in {"QuotaExceed", "QuotaWithin"} THEN TRUE
             ELSE IF "messages" \notin extra_params THEN FALSE
             ELSE message_param(type)
      [] param = "modseq" ->
             IF "modseq" \notin extra_params THEN FALSE ELSE message_param(type)
      [] param = "serverAddress" -> type \in {"Login", "Logout"}
      [] param = "uidset" ->
             IF type \in {"MessageNew", "MessageAppend"} THEN FALSE
             ELSE message_param(type)
      [] param = "uri" -> TRUE
      [] param = "pid" -> TRUE
      [] param = "user" -> type \in SUBS_EVENTS \cup {"Login", "Logout"}
      [] OTHER -> FALSE

\* mboxevent_new: a copy of event_template with the type and the pid.
\* next and prev are 0 for NULL; live is FALSE once the event was freed;
\* uidset is {} for NULL; filled holds the parameters whose filled is set.
mboxevent_new(type) ==
    [type |-> type, next |-> 0, prev |-> 0, live |-> TRUE, flagnames |-> <<>>,
     uidset |-> {}, filled |-> {"pid"}, modseq |-> 0, flagparam |-> <<>>]

\* the events from e along next; fuel ends a walk that does not end
RECURSIVE queue_from(_, _, _)
queue_from(heap, e, fuel) ==
    IF e = 0 \/ fuel = 0 THEN <<>>
    ELSE <<e>> \o queue_from(heap, heap[e].next, fuel - 1)

\* the call read or wrote an event that was freed: undefined behaviour
undefined(q) == [q EXCEPT !.pc = "ub"]

\* the end of the chained list, found from ptr along next
enqueue_last(q) ==
    queue_from(q.heap, q.head, Len(q.heap))[
        Len(queue_from(q.heap, q.head, Len(q.heap)))]

\* mboxevent_enqueue(type, &mboxevents): NULL for a type that is not
\* enabled, else the new event, the head of an empty queue or linked after
\* the last event
mboxevent_enqueue(q, type) ==
    IF type \notin enabled_events THEN q
    ELSE IF q.head = 0
    THEN [q EXCEPT !.heap = Append(@, mboxevent_new(type)),
                   !.head = Len(q.heap) + 1]
    ELSE IF \E k \in 1..Len(queue_from(q.heap, q.head, Len(q.heap))) :
                ~q.heap[queue_from(q.heap, q.head, Len(q.heap))[k]].live
    THEN undefined(q)
    ELSE [q EXCEPT !.heap = Append([@ EXCEPT ![enqueue_last(q)].next =
                                                 Len(q.heap) + 1],
                                   [mboxevent_new(type) EXCEPT
                                       !.prev = enqueue_last(q)])]

\* strarray_add_case: appended unless it is there; the flags of the model
\* have one spelling each, that of the constants of the code
strarray_add_case(sa, s) ==
    IF \E k \in 1..Len(sa) : sa[k] = s THEN sa ELSE Append(sa, s)

\* the flags of a call of mboxevent_add_flags in the order the function
\* tests them: the system flags, then the user flags
FlagOrder == <<"\\Deleted", "\\Answered", "\\Flagged", "\\Draft", "\\Seen", "$X">>

RECURSIVE add_flags_from(_, _, _)
add_flags_from(sa, flags, k) ==
    IF k > Len(FlagOrder) THEN sa
    ELSE add_flags_from(IF FlagOrder[k] \in flags
                           /\ FlagOrder[k] \notin excluded_flags
                        THEN strarray_add_case(sa, FlagOrder[k]) ELSE sa,
                        flags, k + 1)

mboxevent_add_flags(ev, flags) ==
    [ev EXCEPT !.flagnames = add_flags_from(@, flags, 1)]

Min(S) == CHOOSE x \in S : \A y \in S : x <= y
Max(S) == CHOOSE x \in S : \A y \in S : x >= y

\* an extract_record that fills the modseq on the first call only
mboxevent_extract_record_first(ev, record) ==
    [ev EXCEPT
        !.filled = IF ~mboxevent_expected_param(ev.type, "modseq") THEN @
                   ELSE IF ev.uidset = {} THEN @ \cup {"modseq"}
                   ELSE @ \ {"modseq"},
        !.modseq = IF mboxevent_expected_param(ev.type, "modseq")
                      /\ ev.uidset = {}
                   THEN record.modseq ELSE @,
        !.uidset = @ \cup {record.uid}]

\* mboxevent_extract_record: the modseq is filled while the uidset is NULL
\* or holds one UID, and cancelled otherwise; then the UID is added
mboxevent_extract_record(ev, record) ==
    [ev EXCEPT
        !.filled = IF ~mboxevent_expected_param(ev.type, "modseq") THEN @
                   ELSE IF ev.uidset = {} \/ Min(ev.uidset) = Max(ev.uidset)
                   THEN @ \cup {"modseq"}
                   ELSE @ \ {"modseq"},
        !.modseq = IF mboxevent_expected_param(ev.type, "modseq")
                      /\ (ev.uidset = {} \/ Min(ev.uidset) = Max(ev.uidset))
                   THEN record.modseq ELSE @,
        !.uidset = @ \cup {record.uid}]

\* the parameters are filled when they are expected for the type
fill_expected(ev, params) ==
    [ev EXCEPT !.filled =
        @ \cup {p \in params : mboxevent_expected_param(ev.type, p)}]

\* mboxevent_set_access: a Logout without user id is cancelled; the uri is
\* filled unless it is, with the mailboxID of a mailbox event; the server
\* address and the user are filled when given and expected
mboxevent_set_access(ev, serveraddr, userid) ==
    IF userid = NULL /\ ev.type = "Logout" THEN [ev EXCEPT !.type = "Cancelled"]
    ELSE fill_expected(
             [ev EXCEPT !.filled = IF "uri" \in @ THEN @
                                   ELSE @ \cup {"uri"}
                                          \cup (IF ev.type \in MAILBOX_EVENTS
                                                THEN {"mailboxID"} ELSE {})],
             (IF serveraddr # NULL THEN {"serverAddress"} ELSE {})
             \cup (IF userid # NULL THEN {"user"} ELSE {}))

\* mboxevent_extract_mailbox: nothing when the uri is filled; the event is
\* cancelled for an excluded mailbox; else the uri is filled, with the
\* mailboxID of a mailbox event, and MessageNew and MessageAppend lose their
\* uidset
mboxevent_extract_mailbox(ev, mailbox) ==
    IF "uri" \in ev.filled THEN ev
    ELSE IF ~mboxevent_enabled_for_mailbox(mailbox)
    THEN [ev EXCEPT !.type = "Cancelled"]
    ELSE [ev EXCEPT !.uidset = IF ev.type \in {"MessageNew", "MessageAppend"}
                               THEN {} ELSE @,
                    !.filled = @ \cup {"uri"}
                               \cup (IF ev.type \in MAILBOX_EVENTS
                                     THEN {"mailboxID"} ELSE {})]

\* mboxevent_extract_quota: the parameters of the storage or of the message
\* quota, the limit when there is one (limit >= 0), nothing for another
\* resource; then the uri of a quota event
mboxevent_extract_quota(ev, res, limit) ==
    [ev EXCEPT !.filled =
        (CASE res = "STORAGE" ->
                  @ \cup {p \in (IF limit >= 0 THEN {"diskQuota"} ELSE {})
                                \cup {"diskUsed"} :
                             mboxevent_expected_param(ev.type, p)}
           [] res = "MESSAGE" ->
                  @ \cup (IF limit >= 0 THEN {"maxMessages"} ELSE {})
                    \cup {"messages"}
           [] OTHER -> @)
        \cup (IF ev.type \in QUOTA_EVENTS THEN {"uri"} ELSE {})]

\* one call of the caller on the event it holds
mboxevent_call(ev, c) ==
    CASE c.op = "add_flags" -> mboxevent_add_flags(ev, c.flags)
      [] c.op = "extract_record" ->
             mboxevent_extract_record(ev, [uid |-> c.uid, modseq |-> c.modseq])
      [] c.op = "set_access" -> mboxevent_set_access(ev, c.serveraddr, c.userid)
      [] c.op = "extract_mailbox" -> mboxevent_extract_mailbox(ev, c.mailbox)
      [] c.op = "extract_quota" -> mboxevent_extract_quota(ev, c.res, c.limit)

RECURSIVE mboxevent_calls(_, _)
mboxevent_calls(ev, cs) ==
    IF cs = <<>> THEN ev
    ELSE mboxevent_calls(mboxevent_call(ev, Head(cs)), Tail(cs))

\* the calls made on the event the enqueue returned, none when it is NULL
caller_fills(q, e, cs) ==
    IF Len(q.heap) < e THEN q
    ELSE [q EXCEPT !.heap[e] = mboxevent_calls(@, cs)]

\* mboxevent_free(&event) through a pointer of the caller to the event: the
\* neighbours are linked to each other and the event is freed
mboxevent_free(q, e) ==
    IF q.pc = "ub" THEN q
    ELSE IF ~q.heap[e].live THEN undefined(q)
    ELSE IF \/ q.heap[e].prev # 0 /\ ~q.heap[q.heap[e].prev].live
            \/ q.heap[e].next # 0 /\ ~q.heap[q.heap[e].next].live
    THEN undefined(q)
    ELSE [q EXCEPT !.heap =
             [k \in 1..Len(q.heap) |->
                 IF k = e THEN [q.heap[k] EXCEPT !.live = FALSE]
                 ELSE [q.heap[k] EXCEPT
                          !.next = IF k = q.heap[e].prev THEN q.heap[e].next
                                   ELSE @,
                          !.prev = IF k = q.heap[e].next THEN q.heap[e].prev
                                   ELSE @]]]

\* the loop of mboxevent_freequeue
RECURSIVE freequeue_loop(_, _, _)
freequeue_loop(q, event, fuel) ==
    IF q.pc = "ub" \/ event = 0 \/ fuel = 0 THEN q
    ELSE freequeue_loop(mboxevent_free(q, event), q.heap[event].next, fuel - 1)

\* mboxevent_freequeue(&mboxevents)
mboxevent_freequeue(q) ==
    IF q.head = 0 THEN [q EXCEPT !.pc = "freed"]
    ELSE [freequeue_loop([q EXCEPT !.pc = "freed"], q.head, Len(q.heap) + 1)
             EXCEPT !.head = 0]

\* filled_params from the k-th parameter on, with the parameters found
\* missing so far
RECURSIVE filled_params_from(_, _, _, _)
filled_params_from(type, ev, k, missing) ==
    IF k > Len(EventParams) THEN missing = {}
    ELSE IF ~(mboxevent_expected_param(type, EventParams[k])
              /\ EventParams[k] \notin ev.filled)
    THEN filled_params_from(type, ev, k + 1, missing)
    ELSE CASE EventParams[k] = "diskQuota" -> "maxMessages" \in ev.filled
           [] EventParams[k] = "diskUsed" -> "messages" \in ev.filled
           [] EventParams[k] = "flagNames" ->
                  filled_params_from(type, ev, k + 1,
                      IF type \in {"MessageAppend", "MessageNew"} THEN missing
                      ELSE missing \cup {"flagNames"})
           [] EventParams[k] = "maxMessages" -> "diskQuota" \in ev.filled
           [] EventParams[k] = "messages" -> "diskUsed" \in ev.filled
           [] EventParams[k] = "modseq" ->
                  filled_params_from(type, ev, k + 1,
                      IF ev.uidset = {} \/ Min(ev.uidset) = Max(ev.uidset)
                      THEN missing \cup {"modseq"} ELSE missing)
           [] OTHER ->
                  filled_params_from(type, ev, k + 1,
                                     missing \cup {EventParams[k]})

filled_params(type, ev) == filled_params_from(type, ev, 1, {})

\* strarray_remove of the first entry that is the flag
RECURSIVE strarray_remove_flag(_, _)
strarray_remove_flag(sa, s) ==
    IF sa = <<>> THEN <<>>
    ELSE IF Head(sa) = s THEN Tail(sa)
    ELSE <<Head(sa)>> \o strarray_remove_flag(Tail(sa), s)

strarray_find(sa, s) == \E k \in 1..Len(sa) : sa[k] = s

\* the type of the notification of one turn of the inner loop
split_type(ev) ==
    IF ev.type # "FlagsSet" THEN ev.type
    ELSE IF strarray_find(ev.flagnames, "\\Deleted") THEN "MessageTrash"
    ELSE IF strarray_find(ev.flagnames, "\\Seen") THEN "MessageRead"
    ELSE "FlagsSet"

\* the flag the turn takes out of flagnames
split_removed(ev) ==
    CASE split_type(ev) = "MessageTrash" /\ ev.type = "FlagsSet" ->
             [ev EXCEPT !.flagnames = strarray_remove_flag(@, "\\Deleted")]
      [] split_type(ev) = "MessageRead" /\ ev.type = "FlagsSet" ->
             [ev EXCEPT !.flagnames = strarray_remove_flag(@, "\\Seen")]
      [] OTHER -> ev

\* the flagNames parameter, filled from what is left unless the turn sends
\* MessageTrash or MessageRead
split_filled(ev, type) ==
    IF Len(ev.flagnames) > 0 /\ type \notin {"MessageTrash", "MessageRead"}
    THEN [ev EXCEPT !.flagparam = ev.flagnames,
                    !.filled = @ \cup {"flagNames"},
                    !.flagnames = <<>>]
    ELSE ev

\* what json_formatter prints: the type and the parameters that are filled
json_formatter(e, type, ev) ==
    [ev |-> e, type |-> type, filled |-> ev.filled,
     flagNames |-> IF "flagNames" \in ev.filled THEN ev.flagparam ELSE <<>>,
     uidset |-> IF "uidset" \in ev.filled THEN ev.uidset ELSE {},
     modseq |-> IF "modseq" \in ev.filled THEN ev.modseq ELSE 0]

\* the event is passed over by the loop of mboxevent_notify
notify_skips(ev) ==
    \/ ev.type = "Cancelled"
    \/ /\ ev.type \in MESSAGE_EVENTS \cup FLAGS_EVENTS
       /\ IF ev.type \in {"MessageNew", "MessageAppend"}
          THEN "uri" \notin ev.filled
          ELSE ev.uidset = {}
    \/ /\ ev.type \in QUOTA_EVENTS
       /\ "diskQuota" \notin ev.filled
       /\ "maxMessages" \notin ev.filled

\* a notify that never swaps
notify_swaps_never(q) == FALSE

\* the head of mboxevent_notify swaps a leading FlagsSet with a FlagsClear
\* of \Seen that follows it
notify_swaps(q) ==
    /\ q.heap[q.head].type = "FlagsSet"
    /\ q.heap[q.head].next # 0
    /\ q.heap[q.heap[q.head].next].type = "FlagsClear"
    /\ \E k \in 1..Len(q.heap[q.heap[q.head].next].flagnames) :
           q.heap[q.heap[q.head].next].flagnames[k] = "\\Seen"

\* event = event->next at the label next, and the end of the loop
notify_next(q, e) ==
    [q EXCEPT !.cur = q.heap[e].next,
              !.pc = IF q.heap[e].next = 0 THEN "notified" ELSE "event"]

InitQueue ==
    /\ mq = [pc |-> "build", heap |-> <<>>, head |-> 0, cur |-> 0,
             sent |-> <<>>, visited |-> <<>>]
    /\ rock = NoRock
    /\ trip = NoTrip
    /\ pc = "idle"
    /\ idx = 0
    /\ msg = [name |-> "", tag |-> NULL, args |-> NoIds, inv |-> 0]
    /\ locked = FALSE
    /\ idmap = EmptyMap
    /\ idmapmem = "none"
    /\ resp = <<>>
    /\ modseq = 8
    /\ store = <<>>
    /\ db = {}
    /\ nuuid = 0
    /\ ret = 0
    /\ body = <<>>
    /\ steps = 0
    /\ peer = NoPeer
    /\ reqstate = NoReq
    /\ opened = <<>>

\* the caller enqueues an event of one of the recipes and makes the calls of
\* the recipe on it
mq_event(Recipes) ==
    /\ mq.pc = "build"
    /\ Len(mq.heap) < MaxLen
    /\ \E rc \in Recipes :
           mq' = caller_fills(mboxevent_enqueue(mq, rc.type), Len(mq.heap) + 1,
                              rc.calls)
    /\ UNCHANGED <<pc, idx, msg, locked, idmap, idmapmem, resp, modseq, store,
                   db, nuuid, ret, body, steps, rock, trip, peer, reqstate,
                   opened>>

\* the caller frees an event it holds a pointer to, not the one its head
\* pointer names
mq_free ==
    /\ mq.pc \in {"build", "notified"}
    /\ \E e \in 1..Len(mq.heap) :
           /\ mq.heap[e].live
           /\ e # mq.head
           /\ mq' = mboxevent_free(mq, e)
    /\ UNCHANGED <<pc, idx, msg, locked, idmap, idmapmem, resp, modseq, store,
                   db, nuuid, ret, body, steps, rock, trip, peer, reqstate,
                   opened>>

\* the caller frees its queue
mq_freequeue ==
    /\ mq.pc \in {"build", "notified"}
    /\ mq' = mboxevent_freequeue(mq)
    /\ UNCHANGED <<pc, idx, msg, locked, idmap, idmapmem, resp, modseq, store,
                   db, nuuid, ret, body, steps, rock, trip, peer, reqstate,
                   opened>>

\* mboxevent_notify(mboxevents) up to its loop
mq_notify ==
    /\ mq.pc = "build"
    /\ mq' = IF mq.head = 0 THEN [mq EXCEPT !.pc = "notified"]
             ELSE IF notify_swaps(mq)
             THEN [mq EXCEPT
                      !.heap[mq.head].next = mq.heap[mq.heap[mq.head].next].next,
                      !.heap[mq.heap[mq.head].next].next = mq.head,
                      !.cur = mq.heap[mq.head].next,
                      !.pc = "event"]
             ELSE [mq EXCEPT !.cur = mq.head, !.pc = "event"]
    /\ UNCHANGED <<pc, idx, msg, locked, idmap, idmapmem, resp, modseq, store,
                   db, nuuid, ret, body, steps, rock, trip, peer, reqstate,
                   opened>>

\* the head of one turn of the loop over the events: the event is passed
\* over, or its uidset parameter is filled for the inner loop
mq_notify_event ==
    /\ mq.pc = "event"
    /\ mq' = IF notify_skips(mq.heap[mq.cur])
             THEN notify_next([mq EXCEPT !.visited = Append(@, mq.cur)], mq.cur)
             ELSE [mq EXCEPT !.visited = Append(@, mq.cur),
                             !.heap[mq.cur].filled =
                                 IF mq.heap[mq.cur].uidset # {}
                                 THEN @ \cup {"uidset"} ELSE @,
                             !.pc = "split"]
    /\ UNCHANGED <<pc, idx, msg, locked, idmap, idmapmem, resp, modseq, store,
                   db, nuuid, ret, body, steps, rock, trip, peer, reqstate,
                   opened>>

\* what a turn of the inner loop leaves: the process aborted by the
\* assertion, or the notification sent and the loop left when no flag is
\* left
split_sent(q, e, type, ev) ==
    IF ~filled_params(type, ev)
    THEN [q EXCEPT !.heap[e] = ev, !.pc = "abort"]
    ELSE IF Len(ev.flagnames) > 0
    THEN [q EXCEPT !.heap[e] = ev,
                   !.sent = Append(@, json_formatter(e, type, ev))]
    ELSE notify_next([q EXCEPT !.heap[e] = ev,
                               !.sent = Append(@, json_formatter(e, type, ev))],
                     e)

\* one turn of the inner loop of mboxevent_notify
mq_notify_split ==
    /\ mq.pc = "split"
    /\ mq' = split_sent(mq, mq.cur, split_type(mq.heap[mq.cur]),
                        split_filled(split_removed(mq.heap[mq.cur]),
                                     split_type(mq.heap[mq.cur])))
    /\ UNCHANGED <<pc, idx, msg, locked, idmap, idmapmem, resp, modseq, store,
                   db, nuuid, ret, body, steps, rock, trip, peer, reqstate,
                   opened>>


\* ------------------------------------------------ queues to notify
\* the calls of a caller
AddFlags(flags) == [op |-> "add_flags", flags |-> flags]
ExtractRecord(uid, ms) == [op |-> "extract_record", uid |-> uid, modseq |-> ms]
SetAccess(userid) ==
    [op |-> "set_access", serveraddr |-> "imap.example.com", userid |-> userid]
ExtractMailbox(mailbox) == [op |-> "extract_mailbox", mailbox |-> mailbox]
ExtractQuota(res, limit) == [op |-> "extract_quota", res |-> res, limit |-> limit]
Recipe(type, calls) == [type |-> type, calls |-> calls]

\* events that are notified, events that refer to no message or to no
\* supported quota, events that are cancelled, and a type that is not
\* enabled
NotifyRecipes ==
    {Recipe("FlagsSet", <<AddFlags({"\\Flagged"}), ExtractRecord(1, 9),
                          ExtractMailbox("INBOX")>>),
     Recipe("FlagsSet", <<AddFlags({"\\Flagged"})>>),
     Recipe("FlagsClear", <<AddFlags({"\\Seen"}), ExtractRecord(1, 9),
                            ExtractMailbox("INBOX")>>),
     Recipe("FlagsClear", <<AddFlags({"\\Flagged"}), ExtractRecord(2, 10),
                            ExtractMailbox("INBOX")>>),
     Recipe("MessageExpunge", <<ExtractRecord(1, 9), ExtractMailbox("INBOX")>>),
     Recipe("MessageExpunge", <<ExtractRecord(1, 9), ExtractMailbox("Spam")>>),
     Recipe("MessageNew", <<ExtractRecord(3, 11)>>),
     Recipe("Logout", <<SetAccess(NULL)>>),
     Recipe("Logout", <<SetAccess("ann")>>),
     Recipe("QuotaExceed", <<ExtractQuota("ANNOTSTORAGE", 5)>>),
     Recipe("QuotaExceed", <<ExtractQuota("STORAGE", -1)>>),
     Recipe("QuotaExceed", <<ExtractQuota("STORAGE", 5),
                             ExtractQuota("MESSAGE", 7)>>),
     Recipe("MailboxSubscribe", <<>>)}

NextNotify ==
    \/ mq_event(NotifyRecipes)
    \/ mq_notify
    \/ mq_notify_event
    \/ mq_notify_split

SpecNotify == InitQueue /\ [][NextNotify]_vars


\* ------------------------------------------------ flags to report
\* a FlagsSet of a message of INBOX with the flags of the calls of
\* mboxevent_add_flags
FlagsSetOf(adds) ==
    Recipe("FlagsSet",
           adds \o <<ExtractRecord(1, 9), ExtractMailbox("INBOX")>>)

\* FlagsSet events of one message with every mix of \Deleted, \Seen and
\* other flags, with flags added twice, and with no flag left because the
\* one that was set is excluded; a FlagsClear to follow them
FlagsRecipes ==
    {FlagsSetOf(<<AddFlags({"\\Deleted"})>>),
     FlagsSetOf(<<AddFlags({"\\Seen"})>>),
     FlagsSetOf(<<AddFlags({"\\Flagged"})>>),
     FlagsSetOf(<<AddFlags({"\\Deleted", "\\Seen"})>>),
     FlagsSetOf(<<AddFlags({"\\Deleted", "\\Flagged"})>>),
     FlagsSetOf(<<AddFlags({"\\Seen", "\\Flagged", "$X"})>>),
     FlagsSetOf(<<AddFlags({"\\Deleted", "\\Seen", "\\Answered"})>>),
     FlagsSetOf(<<AddFlags({"\\Seen"}), AddFlags({"\\Deleted", "\\Seen"})>>),
     FlagsSetOf(<<AddFlags({"\\Draft", "\\Seen"})>>),
     FlagsSetOf(<<AddFlags({"\\Draft"})>>),
     Recipe("FlagsClear", <<AddFlags({"\\Seen"}), ExtractRecord(1, 9),
                            ExtractMailbox("INBOX")>>)}

NextFlags ==
    \/ mq_event(FlagsRecipes)
    \/ mq_notify
    \/ mq_notify_event
    \/ mq_notify_split

SpecFlags == InitQueue /\ [][NextFlags]_vars


\* ------------------------------------------------ queues to free
\* flag and message events of INBOX
QueueRecipes ==
    {Recipe("FlagsSet", <<AddFlags({"\\Flagged"}), ExtractRecord(1, 9),
                          ExtractMailbox("INBOX")>>),
     Recipe("FlagsClear", <<AddFlags({"\\Seen"}), ExtractRecord(1, 9),
                            ExtractMailbox("INBOX")>>),
     Recipe("FlagsClear", <<AddFlags({"\\Flagged"}), ExtractRecord(2, 10),
                            ExtractMailbox("INBOX")>>),
     Recipe("MessageExpunge", <<ExtractRecord(1, 9), ExtractMailbox("INBOX")>>)}

NextQueue ==
    \/ mq_event(QueueRecipes)
    \/ mq_free
    \/ mq_notify
    \/ mq_notify_event
    \/ mq_notify_split
    \/ mq_freequeue

SpecQueue == InitQueue /\ [][NextQueue]_vars


\* ------------------------------------------------ events of several messages
\* flag and message events of INBOX that refer to one, two and three
\* messages
RecordRecipes ==
    {Recipe(type, <<AddFlags({"\\Flagged"})>> \o records
                  \o <<ExtractMailbox("INBOX")>>) :
        type \in {"FlagsSet", "MessageExpunge"},
        records \in {<<ExtractRecord(1, 9)>>,
                     <<ExtractRecord(1, 9), ExtractRecord(2, 10)>>,
                     <<ExtractRecord(1, 9), ExtractRecord(2, 10),
                       ExtractRecord(3, 11)>>}}

NextRecord ==
    \/ mq_event(RecordRecipes)
    \/ mq_notify
    \/ mq_notify_event
    \/ mq_notify_split

SpecRecord == InitQueue /\ [][NextRecord]_vars

\* ------------------------------------------------------------------ properties
\* a step of the loop of meth_post: msg' is the invocation it took
Dispatched == pc = "run" /\ idx' = idx + 1

\* the step left the responses it found where they were
Extends == Len(resp') >= Len(resp) /\ SubSeq(resp', 1, Len(resp)) = resp

\* the positions of the responses the step appended
Appended == (Len(resp) + 1)..Len(resp')


\* the step appended exactly one response, an error of the given type
\* carrying the tag of the invocation
OneError(type) ==
    /\ Extends
    /\ Len(resp') = Len(resp) + 1
    /\ resp'[Len(resp')].name = "error"
    /\ resp'[Len(resp')].type = type
    /\ resp'[Len(resp')].tag = msg'.tag

\* C1: the response array is the concatenation, in input order, of what each
\* invocation appended: a step of the loop keeps the responses already there
\* and appends only responses that carry the tag and the position of the
\* invocation it took, so positions never decrease along the array; an
\* invocation without a tag appends nothing and the loop goes on; the body
\* written at the end is that array.
C1_ResponsesInInputOrder ==
    [][/\ Dispatched =>
            /\ Extends
            /\ \A n \in Appended :
                   resp'[n].tag = msg'.tag /\ resp'[n].inv = msg'.inv
            /\ \A n \in 1..Len(resp) : resp[n].inv < msg'.inv
            /\ msg'.tag = NULL => (resp' = resp /\ pc' = "run")
       /\ (pc = "dump" /\ ret' = 0) => body' = <<200, resp>>]_vars

\* two responses of invocations 1 and 3, each with its own tag, written as
\* the body: invocation 2 had no tag
C1_Witness ==
    /\ pc = "end" /\ ret = 0
    /\ Len(body) = 2 /\ body[2] = resp
    /\ Len(resp) = 2
    /\ resp[1].inv = 1 /\ resp[1].tag = "t1"
    /\ resp[2].inv = 3 /\ resp[2].tag = "t2"

\* C2: an invocation with a tag whose name is not registered appends exactly
\* one unknownMethod error with its tag, changes nothing else (store, index,
\* modseq, idmap, lock) and the loop goes on; a registered name never
\* produces that error.
C2_UnknownMethod ==
    [][(Dispatched /\ msg'.tag # NULL) =>
            IF msg'.name \notin messages
            THEN /\ OneError("unknownMethod")
                 /\ pc' = "run"
                 /\ UNCHANGED <<store, db, modseq, nuuid, idmap, locked, ret, body>>
            ELSE \A n \in Appended :
                    resp'[n].name = "error" => resp'[n].type # "unknownMethod"]_vars

\* an unknownMethod error followed by the response of a later invocation
C2_Witness ==
    \E n \in 1..Len(resp) :
        /\ resp[n].name = "error"
        /\ resp[n].type = "unknownMethod"
        /\ Len(resp) > n
        /\ resp[n + 1].inv > resp[n].inv

\* an invocation whose arguments are missing or of the wrong type: an
\* updates method without sinceState, a get with an id that is no string
ArgumentError(m) ==
    \/ /\ m.name \in {"getContactUpdates", "getContactGroupUpdates"}
       /\ ~m.args.hasSince
    \/ /\ m.name \in {"getContacts", "getContactGroups"}
       /\ m.args.hasIds
       /\ NonString \in {m.args.ids[n] : n \in 1..Len(m.args.ids)}

\* C3: a failure confined to one invocation never fails the batch: after an
\* invocation with missing or wrongly typed arguments the loop goes on and
\* the request has not failed.
C3_ArgumentErrorsConfined ==
    [][(Dispatched /\ msg'.tag # NULL /\ ArgumentError(msg')) =>
            (pc' = "run" /\ ret' = 0)]_vars

\* C4: when the handler of an invocation returns non-zero the loop is left:
\* the request returns 500, the lock is released, the idmap is freed, and a
\* request that returned 500 has written no body, whatever the invocations
\* before had appended.
C4_FatalAborts ==
    [][/\ (/\ Dispatched
           /\ msg'.tag # NULL
           /\ msg'.name \in messages
           /\ proc(World, msg', fmt_llu(modseq)).r # 0) =>
              /\ pc' = "end"
              /\ ret' = 500
              /\ body' = <<>>
              /\ ~locked'
              /\ idmapmem' = "freed"
              /\ idx' = idx + 1
       /\ ret' = 500 => body' = <<>>
       /\ pc = "end" => idx' = 0]_vars

\* the second invocation was fatal after the first had appended a response
C4_Witness ==
    /\ pc = "end" /\ ret = 500 /\ body = <<>>
    /\ idx = 2 /\ msg.inv = 2 /\ msg.tag # NULL /\ msg.name \in messages
    /\ Len(resp) = 1 /\ resp[1].inv = 1
    /\ ~locked /\ idmapmem = "freed"

C6_StateToken ==
    [][Dispatched =>
          \A n \in Appended :
              /\ resp'[n].name \in {"mailboxes", "contacts", "contactGroups"} =>
                     str2uint64(resp'[n].state) = modseq
              /\ resp'[n].name \in {"contactUpdates", "contactGroupUpdates"} =>
                     str2uint64(resp'[n].newState) = modseq
              /\ IsSetResponse(resp'[n]) =>
                     /\ str2uint64(resp'[n].oldState) = modseq
                     /\ str2uint64(resp'[n].newState) = modseq']_vars

\* a set response that moved the state from 9 to 10, and later an updates
\* response with its nested get, both reporting 10
C6_Witness ==
    \E n \in 1..Len(resp), k \in 1..Len(resp) :
        /\ resp[n].name = "contactsSet"
        /\ resp[n].oldState = <<"9">>
        /\ resp[n].newState = <<"1", "0">>
        /\ k > n /\ k < Len(resp)
        /\ resp[k].name = "contactUpdates"
        /\ resp[k].newState = <<"1", "0">>
        /\ resp[k + 1].name = "contacts"
        /\ resp[k + 1].inv = resp[k].inv
        /\ resp[k + 1].state = <<"1", "0">>

\* C7: a set method whose ifInState is present and is not the string of the
\* current state appends only a stateMismatch error with its tag, leaves
\* store, index, modseq and idmap alone and the loop goes on; with ifInState
\* absent or equal to the state the set runs and appends its set response.
C7_IfInStateGate ==
    [][(/\ Dispatched
        /\ msg'.tag # NULL
        /\ msg'.name \in {"setContacts", "setContactGroups"}) =>
            IF msg'.args.hasIfInState /\ msg'.args.ifInState # fmt_llu(modseq)
            THEN /\ OneError("stateMismatch")
                 /\ pc' = "run"
                 /\ UNCHANGED <<store, db, modseq, nuuid, idmap>>
            ELSE /\ Extends
                 /\ Len(resp') = Len(resp) + 1
                 /\ IsSetResponse(resp'[Len(resp')])
                 /\ DOMAIN resp'[Len(resp')].created # {}
                 /\ modseq' > modseq]_vars

\* a stateMismatch error, then a set with the right ifInState that created
C7_Witness ==
    \E n \in 1..Len(resp) :
        /\ resp[n].name = "error"
        /\ resp[n].type = "stateMismatch"
        /\ Len(resp) > n
        /\ resp[n + 1].name = "contactsSet"
        /\ "k2" \in DOMAIN resp[n + 1].created

\* the uuid a set response of this batch reports as created under some key
CreatedBy(item, names) ==
    IF item.name \in names
    THEN {item.created[k] : k \in DOMAIN item.created} ELSE {}

\* the minted ids of contacts created in this batch and not destroyed since
LiveCreatedContacts ==
    {u \in UNION {CreatedBy(resp[n], {"contactsSet"}) : n \in 1..Len(resp)} :
        \A n \in 1..Len(resp) :
            resp[n].name = "contactsSet" =>
                \A i \in 1..Len(resp[n].destroyed) : resp[n].destroyed[i] # u}

\* the create items of the invocation m whose contactIds is one creation key
\* the idmap holds
KeyMemberCreates(m) ==
    {m.args.create[i].obj.members[1] : i \in
        {j \in 1..Len(m.args.create) :
            /\ m.args.create[j].obj.hasMembers
            /\ Len(m.args.create[j].obj.members) = 1
            /\ m.args.create[j].obj.members[1] \in DOMAIN idmap}}

GroupCreatedUnder(K) ==
    \E n \in 1..Len(resp) :
        /\ resp[n].name = "contactGroupsSet"
        /\ K \in DOMAIN resp[n].created
        /\ resp[n].created[K] = idmap[K]

\* C9: an id that equals a creation key of an earlier successful create of the
\* batch is rewritten to the minted id before use: after setContactGroups
\* created a group under the key g1, getContactGroups with ids [g1] returns
\* exactly that group, with the minted id, in list.
C9_KeysRewrittenInIds ==
    [][(/\ Dispatched
        /\ msg'.tag # NULL
        /\ msg'.name = "getContactGroups"
        /\ msg'.args.ids = <<"g1">>
        /\ "g1" \in DOMAIN idmap
        /\ GroupCreatedUnder("g1")) =>
            /\ Len(resp') = Len(resp) + 1
            /\ resp'[Len(resp')].name = "contactGroups"
            /\ Len(resp'[Len(resp')].list) = 1
            /\ resp'[Len(resp')].list[1].id = idmap["g1"]]_vars

\* the successful creates of the batch so far, as (key, minted id) pairs
CreatedPairs ==
    UNION {IF IsSetResponse(resp[n])
           THEN {<<k, resp[n].created[k]>> : k \in DOMAIN resp[n].created}
           ELSE {} : n \in 1..Len(resp)}

\* C10 as stated: while the batch runs, the idmap maps K to U exactly when
\* some create item with key K succeeded earlier in this batch with minted
\* id U.
C10_IdmapExactlyCreates ==
    pc = "run" => {<<k, idmap[k]>> : k \in DOMAIN idmap} = CreatedPairs

\* what the idmap holds is a successful create of this batch, and every key
\* of a successful create of this batch is held
IdmapOfCreates ==
    /\ {<<k, idmap[k]>> : k \in DOMAIN idmap} \subseteq CreatedPairs
    /\ DOMAIN idmap = {p[1] : p \in CreatedPairs}

\* C10: while the batch runs, every key the idmap holds maps to the minted id
\* of a successful create of that key earlier in this batch, and every key of
\* such a create is held; a step inserts only keys its set response reports
\* as created, never one it reports as notCreated only; a set without create
\* items leaves the idmap alone; the idmap is empty when a batch starts.
C10_IdmapInvariant ==
    [][/\ pc' = "run" => IdmapOfCreates'
       /\ (pc # "run" /\ pc' = "run") => DOMAIN idmap' = {}
       /\ (Dispatched /\ pc' = "run") =>
             /\ \A k \in DOMAIN idmap' :
                    \/ k \in DOMAIN idmap /\ idmap'[k] = idmap[k]
                    \/ \E n \in Appended :
                          /\ IsSetResponse(resp'[n])
                          /\ k \in DOMAIN resp'[n].created
                          /\ resp'[n].created[k] = idmap'[k]
             /\ \A n \in Appended :
                    IsSetResponse(resp'[n]) =>
                        \A k \in DOMAIN resp'[n].notCreated
                                   \ DOMAIN resp'[n].created :
                            /\ k \in DOMAIN idmap' <=> k \in DOMAIN idmap
                            /\ k \in DOMAIN idmap => idmap'[k] = idmap[k]
             /\ (msg'.tag # NULL
                 /\ msg'.name \in {"setContacts", "setContactGroups"}
                 /\ msg'.args.create = <<>>) => idmap' = idmap]_vars

\* a second batch (an earlier one minted an id this one did not): this batch
\* holds k1 and g1 in its idmap while k2, reported notCreated, is not in it
C10_Witness ==
    /\ pc = "run"
    /\ nuuid > Cardinality(CreatedPairs)
    /\ DOMAIN idmap = {"k1", "g1"}
    /\ \E n \in 1..Len(resp) :
          /\ IsSetResponse(resp[n])
          /\ "k2" \in DOMAIN resp[n].notCreated

\* the vCard UIDs the store holds
StoredUids(st) == {st[k].vuid : k \in 1..Len(st)}

\* the ids a response reports as created
CreatedIds(item) ==
    IF IsSetResponse(item)
    THEN {item.created[k] : k \in DOMAIN item.created} ELSE {}

\* C11: no partial state from a handler: a vCard that an invocation added to
\* the store under a new UID is reported in created of a response that
\* invocation appended, and the handler did not fail; and a request that
\* ends without writing its body leaves no creation reported in a response
\* that was never delivered.
C11_NoPartialState ==
    [][/\ Dispatched =>
            \A u \in StoredUids(store') \ StoredUids(store) :
                /\ pc' = "run"
                /\ \E n \in Appended : u \in CreatedIds(resp'[n])
       /\ (pc \in {"run", "dump"} /\ pc' = "end" /\ body' = <<>>) =>
            \A n \in 1..Len(resp') : CreatedIds(resp'[n]) = {}]_vars

\* a step of the loop in which a set handler ran to its end and returned ok:
\* its set response is the last response
SetReturnedOk ==
    /\ Dispatched
    /\ msg'.tag # NULL
    /\ msg'.name \in {"setContacts", "setContactGroups"}
    /\ pc' = "run"
    /\ Len(resp') = Len(resp) + 1
    /\ IsSetResponse(resp'[Len(resp')])

\* the records the step appended
NewRecs == (Len(store) + 1)..Len(store')

\* a record the step appended for a UID the store did not hold, the first of
\* that UID: the record of a create item
IsCreateRec(k) ==
    /\ k \in NewRecs
    /\ store'[k].vuid \notin StoredUids(store)
    /\ \A j \in NewRecs : j < k => store'[j].vuid # store'[k].vuid

\* the records the step expunged without the unbind flag
ExpungedPlain ==
    {k \in 1..Len(store') :
        /\ store'[k].expunged /\ ~store'[k].unbind
        /\ (k \in NewRecs \/ ~store[k].expunged)}

\* the records the step wrote and did not expunge that way
WrittenOther ==
    {k \in 1..Len(store') :
        /\ k \notin ExpungedPlain
        /\ (k \in NewRecs \/ store'[k] # store[k])}

\* C12: in one set invocation the records of the create items are appended
\* before the records of the update items, and the expunges of the destroy
\* items come after every other write of the invocation; an object the
\* invocation both updated and destroyed got its new record from the update
\* and ends up expunged, with no live row in the index.
C12_PhaseOrder ==
    [][SetReturnedOk =>
          /\ \A i \in NewRecs, j \in NewRecs :
                 (i < j /\ IsCreateRec(j)) => IsCreateRec(i)
          /\ \A e \in ExpungedPlain, o \in WrittenOther :
                 store'[o].modseq < store'[e].modseq
          /\ \A x \in SeqRange(resp'[Len(resp')].updated)
                         \cap SeqRange(resp'[Len(resp')].destroyed) :
                 /\ ~\E d \in db' : d.vuid = x /\ d.alive
                 /\ \E k \in NewRecs :
                        /\ store'[k].vuid = x
                        /\ store'[k].expunged /\ ~store'[k].unbind
                        /\ \A j \in 1..Len(store') :
                               store'[j].vuid = x => j <= k]_vars

\* one invocation created a contact, updated u1 and destroyed u1: u1 has an
\* old record expunged with the unbind flag, then the update's record,
\* expunged without it, and the created contact's record lies between
C12_Witness ==
    /\ pc = "run"
    /\ Len(resp) >= 1
    /\ resp[Len(resp)].name = "contactsSet"
    /\ DOMAIN resp[Len(resp)].created = {"k1"}
    /\ resp[Len(resp)].updated = <<"u1">>
    /\ resp[Len(resp)].destroyed = <<"u1">>
    /\ \E i \in 1..Len(store), c \in 1..Len(store), k \in 1..Len(store) :
          /\ i < c /\ c < k
          /\ store[i].vuid = "u1" /\ store[i].expunged /\ store[i].unbind
          /\ store[c].vuid = resp[Len(resp)].created["k1"]
          /\ store[k].vuid = "u1" /\ store[k].expunged /\ ~store[k].unbind
          /\ store[k].modseq = modseq

\* the keys of the create items and the ids of the update items of m
CreateKeys(m) == {m.args.create[i].key : i \in 1..Len(m.args.create)}
UpdateIds(m) == {m.args.update[i].id : i \in 1..Len(m.args.update)}

\* the create item is well formed for the handler it is given to
ValidCreate(m, it) ==
    IF m.name = "setContacts" THEN it.obj \in {ObjName, ObjLast}
    ELSE it.obj.hasName /\ it.obj.name # NonString

\* the error a create item that is not well formed is recorded with
CreateError(m, it) ==
    IF m.name = "setContacts" THEN "invalidParameters"
    ELSE IF ~it.obj.hasName THEN "missingParameters" ELSE "invalidArguments"

\* C13: in a set invocation that returns ok every key of create is in exactly
\* one of created and notCreated and every id of update in exactly one of
\* updated and notUpdated, whatever the items before it did: a well formed
\* create item is in created, one that is not is in notCreated with its
\* error type, an update item whose stored card does not parse is in
\* notUpdated, and no id is listed twice in updated.
C13_PerItemIsolation ==
    [][SetReturnedOk =>
          /\ DOMAIN resp'[Len(resp')].created \cup DOMAIN resp'[Len(resp')].notCreated
                 = CreateKeys(msg')
          /\ DOMAIN resp'[Len(resp')].created \cap DOMAIN resp'[Len(resp')].notCreated
                 = {}
          /\ SeqRange(resp'[Len(resp')].updated) \cup DOMAIN resp'[Len(resp')].notUpdated
                 = UpdateIds(msg')
          /\ SeqRange(resp'[Len(resp')].updated) \cap DOMAIN resp'[Len(resp')].notUpdated
                 = {}
          /\ Cardinality(SeqRange(resp'[Len(resp')].updated))
                 = Len(resp'[Len(resp')].updated)
          /\ \A i \in 1..Len(msg'.args.create) :
                 IF ValidCreate(msg', msg'.args.create[i])
                 THEN msg'.args.create[i].key \in DOMAIN resp'[Len(resp')].created
                 ELSE /\ msg'.args.create[i].key \in DOMAIN resp'[Len(resp')].notCreated
                      /\ resp'[Len(resp')].notCreated[msg'.args.create[i].key]
                             = CreateError(msg', msg'.args.create[i])
          /\ \A i \in 1..Len(msg'.args.update) :
                 msg'.args.update[i].io = "parse" =>
                     /\ msg'.args.update[i].id \in DOMAIN resp'[Len(resp')].notUpdated
                     /\ resp'[Len(resp')].notUpdated[msg'.args.update[i].id]
                            \in {"parseError", "notFound"}]_vars

\* a create whose second item was rejected and whose third was created, and
\* an update whose first item did not parse and whose second was updated
C13_Witness ==
    \E n \in 1..Len(resp), k \in 1..Len(resp) :
        /\ resp[n].name = "contactsSet"
        /\ DOMAIN resp[n].created = {"k1", "k3"}
        /\ DOMAIN resp[n].notCreated = {"k2"}
        /\ resp[k].name = "contactsSet"
        /\ DOMAIN resp[k].notUpdated = {"u2"}
        /\ resp[k].notUpdated["u2"] = "parseError"
        /\ resp[k].updated = <<"u1">>

\* the records the step expunged
Expunged ==
    {k \in 1..Len(store') :
        store'[k].expunged /\ (k \in NewRecs \/ ~store[k].expunged)}

\* the record k was replaced in its mailbox: the step appended, after it, a
\* record of the same card to the same mailbox
ReplacedInPlace(k) ==
    \E j \in NewRecs :
        /\ j > k
        /\ store'[j].mbox = store'[k].mbox
        /\ store'[j].vuid = store'[k].vuid
        /\ store'[j].resource = store'[k].resource

\* C14: a record the set engine expunges carries the unbind flag exactly when
\* the same invocation replaced it in its own mailbox; the record a move
\* leaves behind and the record of a destroy are expunged without it, for
\* contacts and for groups; a record that was expunged before keeps its flag
\* as it was, and no record that is not expunged carries the flag.
C14_UnbindOnReplaceOnly ==
    [][Dispatched =>
          /\ \A k \in Expunged : store'[k].unbind <=> ReplacedInPlace(k)
          /\ \A k \in 1..Len(store) :
                 store[k].expunged =>
                     store'[k].expunged /\ store'[k].unbind = store[k].unbind
          /\ \A k \in 1..Len(store') :
                 store'[k].unbind => store'[k].expunged]_vars

\* a contact moved from Default to Work, replaced in Work and destroyed: its
\* Default record is expunged without the flag, its first Work record with
\* it, its second Work record without it
C14_Witness ==
    \E i \in 1..Len(store), j \in 1..Len(store), k \in 1..Len(store) :
        /\ i < j /\ j < k
        /\ store[i].vuid = "u1" /\ store[j].vuid = "u1" /\ store[k].vuid = "u1"
        /\ store[i].mbox = "Default" /\ store[i].expunged /\ ~store[i].unbind
        /\ store[j].mbox = "Work" /\ store[j].expunged /\ store[j].unbind
        /\ store[k].mbox = "Work" /\ store[k].expunged /\ ~store[k].unbind

\* the kind of card the set handler of m works on
HandlerKind(m) == IF m.name = "setContacts" THEN "contact" ELSE "group"

\* the live rows of the index for the id x, of the kind
LiveRows(rows, x, kind) == {d \in rows : d.vuid = x /\ d.alive /\ d.kind = kind}

\* a step of the loop that ran a set method with one update item and nothing
\* else
OneUpdate ==
    /\ Dispatched
    /\ msg'.tag # NULL
    /\ msg'.name \in {"setContacts", "setContactGroups"}
    /\ msg'.args.create = <<>> /\ msg'.args.destroy = <<>>
    /\ Len(msg'.args.update) = 1
    /\ msg'.args.update[1].io = "ok"

\* the ids of the cards of the kind with a record in the mailbox that is not
\* expunged
HeldIn(st, mbox, kind) ==
    {st[k].vuid : k \in {j \in 1..Len(st) :
        st[j].mbox = mbox /\ st[j].kind = kind /\ ~st[j].expunged}}

\* C15: an update of a live card of the handler's kind whose addressbookId
\* names another address book than the one that holds it appends one record
\* to the destination mailbox with the same UID, resource and kind, expunges
\* the origin record without the unbind flag, leaves every other record
\* alone and reports the id in updated; the index then has the card live in
\* the destination only.  When addressbookId names the address book that
\* holds the card nothing is appended elsewhere and the card stays there.  A
\* get of an address book lists exactly the cards with an unexpunged record
\* in it.
C15_MoveAcrossAddressBooks ==
    [][/\ (OneUpdate /\ msg'.args.update[1].abook # NULL) =>
            \A d \in LiveRows(db, msg'.args.update[1].id, HandlerKind(msg')) :
                IF d.mbox # msg'.args.update[1].abook
                THEN /\ pc' = "run"
                     /\ resp'[Len(resp')].updated = <<d.vuid>>
                     /\ Len(store') = Len(store) + 1
                     /\ store'[Len(store')].mbox = msg'.args.update[1].abook
                     /\ store'[Len(store')].vuid = d.vuid
                     /\ store'[Len(store')].card.uid = d.vuid
                     /\ store'[Len(store')].resource = d.resource
                     /\ store'[Len(store')].kind = d.kind
                     /\ ~store'[Len(store')].expunged
                     /\ \A k \in 1..Len(store) :
                            IF store[k].mbox = d.mbox /\ store[k].uid = d.imap_uid
                            THEN store'[k].expunged /\ ~store'[k].unbind
                            ELSE store'[k] = store[k]
                     /\ \A e \in LiveRows(db', d.vuid, d.kind) :
                            e.mbox = msg'.args.update[1].abook
                            /\ e.resource = d.resource
                     /\ LiveRows(db', d.vuid, d.kind) # {}
                ELSE /\ pc' = "run"
                     /\ resp'[Len(resp')].updated = <<d.vuid>>
                     /\ \A k \in NewRecs : store'[k].mbox = d.mbox
                     /\ \A k \in Expunged : store'[k].unbind
                     /\ \A e \in LiveRows(db', d.vuid, d.kind) : e.mbox = d.mbox
                     /\ LiveRows(db', d.vuid, d.kind) # {}
       /\ (/\ Dispatched
           /\ msg'.tag # NULL
           /\ msg'.name \in {"getContacts", "getContactGroups"}
           /\ ~msg'.args.hasIds
           /\ msg'.args.abook # NULL) =>
              /\ Len(resp') = Len(resp) + 1
              /\ {resp'[Len(resp')].list[i].id : i \in 1..Len(resp'[Len(resp')].list)}
                     = HeldIn(store, msg'.args.abook,
                              IF msg'.name = "getContacts" THEN "contact"
                              ELSE "group")]_vars

\* a contact created in Default and moved to Work; then a get of Work lists
\* it and a get of Default lists nothing
C15_Witness ==
    /\ pc = "run"
    /\ Len(resp) = 4
    /\ resp[2].name = "contactsSet" /\ resp[2].updated = <<"u1">>
    /\ resp[3].name = "contacts"
    /\ Len(resp[3].list) = 1
    /\ resp[3].list[1].id = "u1" /\ resp[3].list[1].addressbookId = "Work"
    /\ resp[4].name = "contacts" /\ resp[4].list = <<>>
    /\ msg.args.abook = "Default"
    /\ Len(store) = 2
    /\ store[1].mbox = "Default" /\ store[1].expunged /\ ~store[1].unbind
    /\ store[2].mbox = "Work" /\ ~store[2].expunged
    /\ store[2].resource = store[1].resource

\* the record with the flag and the importance the partial object asks for
Touched(rec, obj) ==
    [rec EXCEPT !.flagged = IF obj = ObjFlag THEN TRUE ELSE @,
                !.imp = IF obj = ObjImp THEN "5" ELSE @]

\* C16: a setContacts update of a live contact whose object has only
\* isFlagged or only x-importance: when it is not a move nothing is appended
\* and nothing is expunged, the contact's record keeps its IMAP uid and its
\* card, only its flag, its importance and its modseq are rewritten, every
\* other record is left alone and the id is in updated; when it is also a
\* move a record with that flag and importance and the same card is appended
\* to the destination and the origin record is expunged without the unbind
\* flag.
C16_FastPath ==
    [][(/\ OneUpdate
        /\ msg'.name = "setContacts"
        /\ msg'.args.update[1].obj \in {ObjFlag, ObjImp}) =>
          \A d \in LiveRows(db, msg'.args.update[1].id, "contact") :
              /\ pc' = "run"
              /\ resp'[Len(resp')].updated = <<d.vuid>>
              /\ IF msg'.args.update[1].abook \in {NULL, d.mbox}
                 THEN /\ Len(store') = Len(store)
                      /\ Expunged = {}
                      /\ \A k \in 1..Len(store) :
                             IF store[k].mbox = d.mbox /\ store[k].uid = d.imap_uid
                             THEN store'[k] =
                                      [Touched(store[k], msg'.args.update[1].obj)
                                          EXCEPT !.modseq = modseq']
                             ELSE store'[k] = store[k]
                      /\ \A e \in LiveRows(db', d.vuid, "contact") :
                             e.mbox = d.mbox /\ e.imap_uid = d.imap_uid
                      /\ LiveRows(db', d.vuid, "contact") # {}
                 ELSE /\ Len(store') = Len(store) + 1
                      /\ store'[Len(store')].mbox = msg'.args.update[1].abook
                      /\ ~store'[Len(store')].expunged
                      /\ \A k \in 1..Len(store) :
                             IF store[k].mbox = d.mbox /\ store[k].uid = d.imap_uid
                             THEN /\ store'[k].expunged /\ ~store'[k].unbind
                                  /\ store'[Len(store')].card = store[k].card
                                  /\ store'[Len(store')].flagged =
                                         Touched(store[k], msg'.args.update[1].obj).flagged
                                  /\ store'[Len(store')].imp =
                                         Touched(store[k], msg'.args.update[1].obj).imp
                             ELSE store'[k] = store[k]]_vars

\* a contact moved to Work, its importance set there in place, then flagged
\* by an update that names Default: the Work record kept its IMAP uid for the
\* importance and was expunged without the unbind flag by the last update,
\* which appended a flagged record to Default
C16_Witness ==
    /\ pc = "run"
    /\ Len(resp) = 4
    /\ resp[3].name = "contactsSet" /\ resp[3].updated = <<"u1">>
    /\ resp[4].name = "contactsSet" /\ resp[4].updated = <<"u1">>
    /\ Len(store) = 3
    /\ store[2].mbox = "Work" /\ store[2].uid = 1 /\ store[2].imp = "5"
    /\ ~store[2].flagged
    /\ store[2].expunged /\ ~store[2].unbind
    /\ store[3].mbox = "Default" /\ store[3].flagged /\ store[3].imp = "5"
    /\ ~store[3].expunged
    /\ store[3].card = store[2].card

\* how many times x occurs in the sequence
Count(sq, x) == Cardinality({i \in 1..Len(sq) : sq[i] = x})

\* the ids of the destroy entries of m
DestroyIds(m) == [i \in 1..Len(m.args.destroy) |-> m.args.destroy[i].id]

\* a step of the loop that ran a set method without create items
SetWithoutCreate ==
    /\ Dispatched
    /\ msg'.tag # NULL
    /\ msg'.name \in {"setContacts", "setContactGroups"}
    /\ msg'.args.create = <<>>

\* C17: an update or destroy item whose id has no live card of the handler's
\* kind (no row, a row of the other kind, or a tombstone) is recorded as
\* notFound under that id and is not listed in updated or destroyed, and an
\* invocation of such items only leaves store, index and modseq alone; an id
\* with a live card that a destroy array names twice is listed in destroyed
\* once and recorded as notFound for the second entry.
C17_NotFound ==
    [][SetWithoutCreate =>
          /\ pc' = "run" =>
               \A i \in 1..Len(msg'.args.update) :
                   LiveRows(db, msg'.args.update[i].id, HandlerKind(msg')) = {} =>
                       /\ msg'.args.update[i].id \in DOMAIN resp'[Len(resp')].notUpdated
                       /\ resp'[Len(resp')].notUpdated[msg'.args.update[i].id] = "notFound"
                       /\ Count(resp'[Len(resp')].updated, msg'.args.update[i].id) = 0
          /\ (pc' = "run" /\ msg'.args.update = <<>>) =>
               \A x \in SeqRange(DestroyIds(msg')) :
                   IF LiveRows(db, x, HandlerKind(msg')) = {}
                   THEN /\ x \in DOMAIN resp'[Len(resp')].notDestroyed
                        /\ resp'[Len(resp')].notDestroyed[x] = "notFound"
                        /\ Count(resp'[Len(resp')].destroyed, x) = 0
                   ELSE /\ Count(resp'[Len(resp')].destroyed, x) = 1
                        /\ Count(DestroyIds(msg'), x) > 1 =>
                               /\ x \in DOMAIN resp'[Len(resp')].notDestroyed
                               /\ resp'[Len(resp')].notDestroyed[x] = "notFound"
          /\ (\A i \in 1..Len(msg'.args.update) :
                  LiveRows(db, msg'.args.update[i].id, HandlerKind(msg')) = {})
             /\ (\A x \in SeqRange(DestroyIds(msg')) :
                  LiveRows(db, x, HandlerKind(msg')) = {}) =>
               /\ pc' = "run"
               /\ UNCHANGED <<store, db, modseq>>]_vars

\* the elements of removed that do not occur in changed, in their order
KeptOf(removed, changed) == SelectSeq(removed, LAMBDA x : ~InSeq(x, changed))

\* C18: strip_spurious_deletes ends on every pair of lists, and when it has
\* ended no UID occurs in both lists, changed is what it was, and removed
\* holds exactly the elements of the removed it was given that do not occur
\* in changed, in their relative order, as many times as they occurred; the
\* loop never touches changed and the handlers' call of it gives the same
\* list.
C18_StripSpuriousDeletes ==
    /\ [](rock.pc = "done" =>
             /\ SeqRange(rock.removed) \cap SeqRange(rock.changed) = {}
             /\ rock.removed = KeptOf(rock.input, rock.changed)
             /\ rock.removed = strip_spurious_deletes(rock.input, rock.changed, 0))
    /\ [][rock'.changed = rock.changed /\ rock'.input = rock.input]_vars
    /\ <>(rock.pc = "done")

\* the call has ended on a removed list with a duplicate that matches at
\* index 0: both copies are gone and the element that follows is kept
C18_Witness ==
    /\ rock.pc = "done"
    /\ rock.input = <<"u1", "u1", "u2">>
    /\ rock.changed = <<"u3", "u1">>
    /\ rock.removed = <<"u2">>

\* a step of the loop that ran an updates method with a string sinceState
UpdatesStep ==
    /\ Dispatched
    /\ msg'.tag # NULL
    /\ msg'.name \in {"getContactUpdates", "getContactGroupUpdates"}
    /\ msg'.args.hasSince
    /\ msg'.args.sinceState # <<NonString>>

\* the contacts with a record that was written after the state S and is not
\* expunged: created, updated or moved since
LiveSince(S) ==
    {store[k].vuid : k \in {j \in 1..Len(store) :
        /\ store[j].kind = "contact"
        /\ ~store[j].expunged
        /\ store[j].modseq > S}}

\* the contacts without an unexpunged record whose record was expunged,
\* without the unbind flag, after the state S: destroyed since
DeadSince(S) ==
    {store[k].vuid : k \in {j \in 1..Len(store) :
        /\ store[j].kind = "contact"
        /\ store[j].expunged /\ ~store[j].unbind
        /\ store[j].modseq > S
        /\ \A i \in 1..Len(store) :
               store[i].vuid = store[j].vuid => store[i].expunged}}

ListIds(item) == {item.list[i].id : i \in 1..Len(item.list)}

GetStep ==
    /\ Dispatched
    /\ msg'.tag # NULL
    /\ msg'.name \in {"getContacts", "getContactGroups"}
    /\ \A n \in 1..Len(msg'.args.ids) : msg'.args.ids[n] # NonString

\* the cards a get of msg' can list: the ones of its kind with an unexpunged
\* record in the address book it names
Listable ==
    HeldIn(store, AbookArg(msg'.args),
           IF msg'.name = "getContacts" THEN "contact" ELSE "group")

DateDomain(y, m, d) == (y = 0 \/ y \in 1605..9999) /\ m \in 0..12 /\ d \in 0..31

\* the date (y, m, d) written to a card and read back, as (y, m, d)
ReadBack(y, m, d) ==
    _parse_date(_date_to_jmap(_date_to_card(NoEntry, fmt_date(y, m, d)).entry))

\* C22: a date (y, m, d) with y = 0 or 1605 <= y <= 9999, m <= 12 and d <= 31,
\* formatted as YYYY-MM-DD, is accepted by _date_to_card, and _date_to_jmap
\* reads the same string, hence the same (y, m, d), back from the card it
\* left, every combination of zero components and the all-zero date
\* included; for the first and last month and day this holds for every year
\* of the range.
C22_DateRoundTrip ==
    /\ (trip.pc = "done" /\ DateDomain(trip.y, trip.m, trip.d)) =>
           /\ trip.r = 0
           /\ trip.out = trip.jmap
           /\ _parse_date(trip.out) =
                  [r |-> 0, y |-> trip.y, m |-> trip.m, d |-> trip.d]
    /\ (trip.pc = "done" /\ trip.y = 0 /\ trip.m \in {0, 12} /\ trip.d \in {0, 31}) =>
           \A y \in 1605..9999 :
               ReadBack(y, trip.m, trip.d) =
                   [r |-> 0, y |-> y, m |-> trip.m, d |-> trip.d]

\* the birthday 0000-03-15 was written over an older birthday as 1604-03-15
\* with the parameter of the omitted year, and read back as 0000-03-15
C22_Witness ==
    /\ trip.pc = "done"
    /\ trip.y = 0 /\ trip.m = 3 /\ trip.d = 15
    /\ trip.jmap = <<"0", "0", "0", "0", "-", "0", "3", "-", "1", "5">>
    /\ trip.entry = [value |-> <<"1", "6", "0", "4", "-", "0", "3", "-", "1", "5">>,
                     params |-> << <<"x-apple-omit-year", "1604">> >>]
    /\ trip.out = trip.jmap

\* what the emails of an object read back as: the items as given, the
\* default the one that says so, else the first
ExpectEmails(arg) ==
    [i \in 1..Len(arg) |->
        [type |-> arg[i].type, label |-> arg[i].label, value |-> arg[i].value,
         isDefault |-> IF \E j \in 1..Len(arg) : arg[j].isDefault = "true"
                       THEN arg[i].isDefault = "true" ELSE i = 1]]

ExpectItems(arg) ==
    [i \in 1..Len(arg) |->
        [type |-> arg[i].type, label |-> arg[i].label, value |-> arg[i].value]]

ExpectAddresses(arg) ==
    [i \in 1..Len(arg) |->
        [type |-> arg[i].type, label |-> arg[i].label,
         street |-> <<arg[i].street>>, locality |-> arg[i].locality,
         region |-> arg[i].region, postcode |-> arg[i].postcode,
         country |-> arg[i].country]]

\* the object o read back has the member key with the value v it was
\* created with
ReadsBack(o, key, v) ==
    CASE key \in {"firstName", "lastName"} -> o[key] = <<v>>
      [] key = "emails" -> o.emails = ExpectEmails(v)
      [] key = "addresses" -> o.addresses = ExpectAddresses(v)
      [] key \in {"phones", "online"} -> o[key] = ExpectItems(v)
      [] OTHER -> key \in DOMAIN o /\ o[key] = v

\* C23: a contact object made of name parts (prefix and suffix included),
\* company, department, jobTitle, nickname, notes, birthday, addresses,
\* emails, phones and online entries (uri, username with a known service as
\* label, with another label, without label) is accepted by the mapper, and
\* the object read back from the card has every member it was created with,
\* with the same value; emails without a default read back with the first
\* one as default.
C23_ContactRoundTrip ==
    /\ trip.pc = "read" => trip.r = 0
    /\ trip.pc = "done" =>
           \A k \in 1..Len(trip.obj) :
               ReadsBack(trip.out, trip.obj[k][1], trip.obj[k][2])

\* a step of the loop that ran getMailboxes
MailboxesStep ==
    /\ Dispatched
    /\ msg'.tag # NULL
    /\ lookup_method(msg'.name) = "getMailboxes"

\* the step appended one "mailboxes" response with the tag, the state read
\* before the call, a null notFound and the given list, and the loop goes on
MailboxesResponse(list) ==
    /\ Extends
    /\ Len(resp') = Len(resp) + 1
    /\ resp'[Len(resp')].name = "mailboxes"
    /\ resp'[Len(resp')].tag = msg'.tag
    /\ resp'[Len(resp')].state = fmt_llu(modseq)
    /\ resp'[Len(resp')].notFound = NULL
    /\ resp'[Len(resp')].list = list
    /\ pc' = "run" /\ ret' = ret

BothRights(mboxname) == {"l", "r"} \subseteq Rights(mboxname)
SomeRight(mboxname) == Rights(mboxname) \cap {"l", "r"} # {}
NotInbox(mboxname) == mboxname # INBOX

HasToken(item) ==
    item.name \in {"mailboxes", "contacts", "contactGroups", "contactUpdates",
                   "contactGroupUpdates", "contactsSet", "contactGroupsSet"}
FirstToken(item) ==
    str2uint64(CASE IsSetResponse(item) -> item.oldState
                 [] item.name \in {"contactUpdates", "contactGroupUpdates"} ->
                        item.newState
                 [] OTHER -> item.state)
LastToken(item) ==
    str2uint64(IF item.name \in {"mailboxes", "contacts", "contactGroups"}
               THEN item.state ELSE item.newState)

\* C25: while the batch holds the INBOX lock no step but a handler call
\* changes the modseq, whatever the other process does; the state read for
\* an invocation is still the modseq when its handler is called, and it is
\* the newState of the set response the invocation before it appended; the
\* tokens of the responses never decrease along the batch.
C25_ModseqFrozen ==
    [][/\ (locked /\ ~Dispatched) => modseq' = modseq
       /\ (Dispatched /\ reqstate.taken) =>
              /\ reqstate.state = fmt_llu(modseq)
              /\ (/\ Len(resp) >= 1
                  /\ IsSetResponse(resp[Len(resp)])
                  /\ resp[Len(resp)].inv = idx) =>
                     reqstate.state = resp[Len(resp)].newState
              /\ \A n \in Appended :
                     HasToken(resp'[n]) =>
                         /\ FirstToken(resp'[n]) <= LastToken(resp'[n])
                         /\ \A k \in 1..Len(resp) :
                                HasToken(resp[k]) =>
                                    LastToken(resp[k]) <= FirstToken(resp'[n])]_vars

\* the other process has written for another user and is still at work; the
\* batch has run a set that moved the state and has read, for its next
\* invocation, the newState of that set
C25_Witness ==
    /\ pc = "run" /\ locked
    /\ peer.pc = "run" /\ peer.n >= 1
    /\ reqstate.taken
    /\ Len(resp) >= 1
    /\ resp[Len(resp)].name = "contactsSet"
    /\ resp[Len(resp)].inv = idx
    /\ resp[Len(resp)].oldState # resp[Len(resp)].newState
    /\ reqstate.state = resp[Len(resp)].newState

\* the other process works on mailboxes of this user
PeerSameUser == peer.pc = "run" /\ peer.same

\* C26: the batch and another process of the same user never hold the lock
\* together: no invocation is taken or called while the other is at work,
\* and the other starts and writes only when the batch is outside its loop
\* with the lock released, which it is as soon as the loop is left, after
\* the last invocation or on abort; an ifInState that passed is the modseq when the
\* set handler is called, and the set response starts from it; a process of
\* another user can start whenever it is idle, the batch running or not.
C26_BatchesSerialized ==
    [][/\ ~(locked /\ PeerSameUser)
       /\ pc # "run" => ~locked
       /\ (pc = "run" \/ reqstate.taken) => ~PeerSameUser
       /\ (PeerSameUser /\ (modseq' # modseq \/ peer' # peer)) =>
              ~locked /\ pc # "run"
       /\ (/\ Dispatched /\ reqstate.taken
           /\ msg'.name = "setContacts"
           /\ msg'.args.hasIfInState
           /\ Len(resp') = Len(resp) + 1
           /\ IsSetResponse(resp'[Len(resp')])) =>
              /\ msg'.args.ifInState = fmt_llu(modseq)
              /\ resp'[Len(resp')].oldState = msg'.args.ifInState
       /\ peer.pc = "idle" => ENABLED peer_begin(FALSE)]_vars

\* the batch was aborted by a fatal error in its first handler, and the
\* other process of the same user, which had to wait, is now at work
C26_Witness ==
    /\ pc = "end" /\ ret = 500 /\ ~locked
    /\ idx = 1 /\ msg.name = "setContacts"
    /\ PeerSameUser /\ peer.n >= 1

\* C27: in the record of the mailboxes the set handler held open, no
\* mailbox is ever open without a pointer to it (one current mailbox and one
\* move destination at most), the two are never the same mailbox, the
\* current mailbox is opened only with none held and, after a close, only
\* as another mailbox than the one closed, the move destination is closed
\* when an item ends, and at the return, which ends the record, nothing is
\* open.
C27_MailboxDiscipline ==
    /\ opened # <<>> => opened[Len(opened)].ev = "return"
    /\ \A n \in 1..Len(opened) :
          /\ opened[n].lost = {}
          /\ opened[n].mailbox # NULL => opened[n].mailbox # opened[n].newmailbox
          /\ opened[n].ev = "open" =>
                 /\ n > 1 => opened[n - 1].mailbox = NULL
                 /\ (n > 2 /\ opened[n - 1].ev = "close") =>
                        opened[n - 2].mailbox # opened[n].mailbox
          /\ opened[n].ev = "opennew" =>
                 /\ n > 1
                 /\ opened[n - 1].newmailbox = NULL
                 /\ opened[n].mailbox # NULL
          /\ opened[n].ev = "item" => opened[n].newmailbox = NULL
          /\ opened[n].ev = "return" =>
                 /\ n = Len(opened)
                 /\ opened[n].mailbox = NULL
                 /\ opened[n].newmailbox = NULL

\* a set handler moved a card with Default current and Work as the
\* destination, closed the destination, went on to a card of Work and
\* switched its current mailbox to it
C27_Witness ==
    \E n \in 1..Len(opened), k \in 1..Len(opened) :
        /\ opened[n].ev = "opennew"
        /\ opened[n].mailbox = "Default" /\ opened[n].newmailbox = "Work"
        /\ opened[n + 1].ev = "closenew"
        /\ k > n + 3
        /\ opened[k].ev = "open" /\ opened[k].mailbox = "Work"
        /\ opened[k - 1].ev = "close"

\* C28: once meth_post has returned, on whichever path, the idmap it
\* constructed has been destroyed; while the loop runs it is live.
C28_IdmapDestroyed ==
    /\ pc = "end" => idmapmem = "freed"
    /\ pc \in {"run", "dump"} => idmapmem = "live"

\* the records of the vCard UID u that are not expunged
LiveRecs(st, u) == {k \in 1..Len(st) : st[k].vuid = u /\ ~st[k].expunged}

\* a step of the loop that ran a set method with one update item that names
\* no other address book, and appended a record
SameMailboxUpdate ==
    /\ Dispatched
    /\ msg'.tag # NULL
    /\ msg'.name \in {"setContacts", "setContactGroups"}
    /\ msg'.args.create = <<>> /\ msg'.args.destroy = <<>>
    /\ Len(msg'.args.update) = 1
    /\ ~IsMove(msg'.args.update[1].abook,
               carddav_lookup_uid(db, msg'.args.update[1].id))
    /\ Len(store') = Len(store) + 1

\* C29: at every point between invocations and after the request, a fatal
\* end included, no vCard UID has two records that are not expunged; and a
\* same-mailbox update that appended a record leaves that record as the only
\* live one of its UID, the record it superseded being expunged with the
\* unbind flag.
C29_SingleLiveRecord ==
    /\ [](\A k \in 1..Len(store) :
             Cardinality(LiveRecs(store, store[k].vuid)) <= 1)
    /\ [][SameMailboxUpdate =>
              /\ LiveRecs(store', store'[Len(store')].vuid) = {Len(store')}
              /\ \E k \in 1..Len(store) :
                     /\ store[k].vuid = store'[Len(store')].vuid
                     /\ ~store[k].expunged
                     /\ store'[k].expunged /\ store'[k].unbind]_vars

\* a step of the loop in which a set method answered with its set response
SetAnswered ==
    /\ Dispatched
    /\ msg'.tag # NULL
    /\ msg'.name \in {"setContacts", "setContactGroups"}
    /\ Len(resp') = Len(resp) + 1
    /\ IsSetResponse(resp'[Len(resp')])

\* C30: in the set response every entry of the destroy array has its
\* outcome: a string is listed in destroyed or is a key of notDestroyed, an
\* entry that is not a string has a record of type invalidArguments in
\* notDestroyed, and there are as many outcome records as entries.
C30_DestroyOutcomes ==
    [][SetAnswered =>
          /\ \A i \in 1..Len(msg'.args.destroy) :
                 IF json_string_value(msg'.args.destroy[i].id) # NULL
                 THEN \/ Count(resp'[Len(resp')].destroyed,
                               msg'.args.destroy[i].id) >= 1
                      \/ msg'.args.destroy[i].id
                             \in DOMAIN resp'[Len(resp')].notDestroyed
                 ELSE \E x \in DOMAIN resp'[Len(resp')].notDestroyed :
                          resp'[Len(resp')].notDestroyed[x] = "invalidArguments"
          /\ Len(resp'[Len(resp')].destroyed)
                 + Cardinality(DOMAIN resp'[Len(resp')].notDestroyed)
             = Len(msg'.args.destroy)]_vars

\* the keys of a contact object the mapper knows, and the JSON type each takes
ContactKeys ==
    {"isFlagged", "x-importance", "avatar", "prefix", "firstName", "lastName",
     "suffix", "nickname", "birthday", "anniversary", "company", "department",
     "jobTitle", "emails", "phones", "online", "addresses", "notes"}

StringKeys ==
    {"prefix", "firstName", "lastName", "suffix", "nickname", "anniversary",
     "company", "department", "jobTitle", "notes"}

\* the value is not of the JSON type the key takes
WronglyTyped(key, jval) ==
    \/ key \in StringKeys /\ jval = NonString
    \/ key = "isFlagged" /\ jval \notin {"true", "false"}

\* the object has a key the mapper does not know, or a known key with a
\* value of the wrong type
InvalidObj(obj) ==
    \E n \in 1..Len(obj) :
        \/ obj[n][1] \notin ContactKeys
        \/ WronglyTyped(obj[n][1], obj[n][2])

\* C31: a contact create or update whose object has a key the mapper does not
\* know, or a known key with a wrongly typed value, is rejected with
\* invalidParameters in notCreated / notUpdated: the key or id is not in
\* created / updated, the item makes no entry of the id map, the records of
\* the id are as they were (flags and annotations included), an invocation
\* of such items only leaves the store as it was, and the well formed items
\* of the same invocation are still created or updated.
C31_InvalidRejected ==
    [][SetAnswered /\ msg'.name = "setContacts" =>
          /\ \A i \in 1..Len(msg'.args.create) :
                 IF InvalidObj(msg'.args.create[i].obj)
                 THEN /\ msg'.args.create[i].key \in DOMAIN resp'[Len(resp')].notCreated
                      /\ resp'[Len(resp')].notCreated[msg'.args.create[i].key]
                             = "invalidParameters"
                      /\ msg'.args.create[i].key \notin DOMAIN resp'[Len(resp')].created
                      /\ msg'.args.create[i].key \in DOMAIN idmap' =>
                             /\ msg'.args.create[i].key \in DOMAIN idmap
                             /\ idmap'[msg'.args.create[i].key]
                                    = idmap[msg'.args.create[i].key]
                 ELSE msg'.args.create[i].key \in DOMAIN resp'[Len(resp')].created
          /\ \A i \in 1..Len(msg'.args.update) :
                 LiveRecs(store, msg'.args.update[i].id) # {} =>
                     IF InvalidObj(msg'.args.update[i].obj)
                     THEN /\ msg'.args.update[i].id \in DOMAIN resp'[Len(resp')].notUpdated
                          /\ resp'[Len(resp')].notUpdated[msg'.args.update[i].id]
                                 = "invalidParameters"
                          /\ msg'.args.update[i].id \notin SeqRange(resp'[Len(resp')].updated)
                          /\ \A k \in 1..Len(store') :
                                 store'[k].vuid = msg'.args.update[i].id =>
                                     k <= Len(store) /\ store'[k] = store[k]
                     ELSE msg'.args.update[i].id \in SeqRange(resp'[Len(resp')].updated)
          /\ (/\ \A i \in 1..Len(msg'.args.create) :
                     InvalidObj(msg'.args.create[i].obj)
              /\ \A i \in 1..Len(msg'.args.update) :
                     InvalidObj(msg'.args.update[i].obj))
                 => store' = store /\ idmap' = idmap]_vars

\* the member reference resolves to an existing contact, through the id map
\* of the request or in the store
Resolves(ref) ==
    \/ ref \in DOMAIN idmap
    \/ \E k \in 1..Len(store) :
           store[k].vuid = ref /\ store[k].kind = "contact" /\ ~store[k].expunged

\* the group object has a member reference that does not resolve
HasUnresolved(o) ==
    \/ o.hasMembers /\ \E n \in 1..Len(o.members) : ~Resolves(o.members[n])
    \/ o.hasOthers /\ \E n \in 1..Len(o.others) : ~Resolves(o.others[n][2])

\* a step of the loop that ran setContactGroups with a single item
OneGroupItem ==
    /\ SetAnswered
    /\ msg'.name = "setContactGroups"
    /\ Len(msg'.args.create) + Len(msg'.args.update) = 1
    /\ msg'.args.destroy = <<>>

\* C32: a group create, or an update of a stored group, with a member
\* reference in contactIds or otherAccountContactIds that does not resolve
\* to an existing contact, through the id map or the store, fails with
\* invalidContactId in notCreated / notUpdated, and no group record is
\* stored or replaced.
C32_InvalidContactId ==
    [][OneGroupItem =>
          /\ \A i \in 1..Len(msg'.args.create) :
                 HasUnresolved(msg'.args.create[i].obj) =>
                     /\ msg'.args.create[i].key \in DOMAIN resp'[Len(resp')].notCreated
                     /\ resp'[Len(resp')].notCreated[msg'.args.create[i].key]
                            = "invalidContactId"
                     /\ resp'[Len(resp')].created = EmptyMap
                     /\ store' = store
          /\ \A i \in 1..Len(msg'.args.update) :
                 (/\ HasUnresolved(msg'.args.update[i].obj)
                  /\ \E k \in LiveRecs(store, msg'.args.update[i].id) :
                         store[k].kind = "group") =>
                     /\ msg'.args.update[i].id \in DOMAIN resp'[Len(resp')].notUpdated
                     /\ resp'[Len(resp')].notUpdated[msg'.args.update[i].id]
                            = "invalidContactId"
                     /\ resp'[Len(resp')].updated = <<>>
                     /\ store' = store]_vars

\* the keys of the update object
PatchKeys == {trip.patch[n][1] : n \in 1..Len(trip.patch)}

\* the value the update object gives the key
PatchValue(key) ==
    trip.patch[CHOOSE n \in 1..Len(trip.patch) : trip.patch[n][1] = key][2]

\* the property of the card that a key with one property of its own sets
CardProps ==
    [nickname |-> "nickname", notes |-> "note", birthday |-> "bday",
     anniversary |-> "anniversary", emails |-> "email", phones |-> "tel",
     online |-> "online", addresses |-> "adr"]

\* an update of a contact has just been mapped onto the stored card
ContactPatched == trip.pc = "read" /\ trip.kind = "contact"
GroupPatched == trip.pc = "read" /\ trip.kind = "group"

\* the entries of the kind are those of the update object, one for one
ReplacedBy(entries, items) ==
    /\ Len(entries) = Len(items)
    /\ \A i \in 1..Len(items) : entries[i].value = items[i].value

\* C33: a partial update changes only the properties of the keys in the
\* update object (and FN): a name key leaves the other positions of N and an
\* organisation key the other positions of ORG as they were; the EMAIL, TEL,
\* ADR, URL / IMPP, NOTE, BDAY, NICKNAME entries, the flag and the
\* importance are kept when their key is absent; a present emails, phones,
\* online or addresses key replaces all entries of its kind with those of
\* the object; a group update without contactIds keeps the local members,
\* one with contactIds leaves exactly the members it lists, and the members
\* of other accounts are kept unless otherAccountContactIds is given.
C33_PartialUpdateFrame ==
    /\ ContactPatched =>
          /\ \A k \in DOMAIN CardProps :
                 k \notin PatchKeys =>
                     trip.card[CardProps[k]] = trip.old[CardProps[k]]
          /\ trip.card.uid = trip.old.uid
          /\ \A k \in DOMAIN NameKeys :
                 IF k \in PatchKeys
                 THEN trip.r = 0 =>
                          strarray_safenth(trip.card.n, NameKeys[k]) = PatchValue(k)
                 ELSE strarray_safenth(trip.card.n, NameKeys[k])
                          = strarray_safenth(trip.old.n, NameKeys[k])
          /\ strarray_safenth(trip.card.n, 2) = strarray_safenth(trip.old.n, 2)
          /\ \A k \in DOMAIN OrgKeys :
                 IF k \in PatchKeys
                 THEN trip.r = 0 =>
                          strarray_safenth(trip.card.org, OrgKeys[k]) = PatchValue(k)
                 ELSE strarray_safenth(trip.card.org, OrgKeys[k])
                          = strarray_safenth(trip.old.org, OrgKeys[k])
          /\ "isFlagged" \notin PatchKeys => trip.flagged = trip.oldflagged
          /\ "x-importance" \notin PatchKeys => trip.imp = trip.oldimp
          /\ \A k \in {"emails", "phones", "online"} :
                 k \in PatchKeys /\ trip.r = 0 =>
                     ReplacedBy(trip.card[CardProps[k]], PatchValue(k))
          /\ "addresses" \in PatchKeys /\ trip.r = 0 =>
                 /\ Len(trip.card.adr) = Len(PatchValue("addresses"))
                 /\ \A i \in 1..Len(trip.card.adr) :
                        strarray_safenth(trip.card.adr[i].values, 2)
                            = PatchValue("addresses")[i].street
    /\ GroupPatched =>
          /\ trip.card.uid = trip.old.uid
          /\ ~trip.patch.hasName => trip.card.fn = trip.old.fn
          /\ IF trip.patch.hasMembers
             THEN trip.card.members
                      = [i \in 1..Len(trip.patch.members) |->
                            <<"urn:uuid:", trip.patch.members[i]>>]
             ELSE trip.card.members = trip.old.members
          /\ ~trip.patch.hasOthers => trip.card.others = trip.old.others

\* an update with only emails replaced the two addresses of a full contact
\* with one and kept its phones, its note and its name
C33_Witness ==
    /\ ContactPatched
    /\ PatchKeys = {"emails"}
    /\ trip.r = 0
    /\ Len(trip.old.email) = 2 /\ Len(trip.card.email) = 1
    /\ Len(trip.old.tel) = 3 /\ trip.card.tel = trip.old.tel
    /\ trip.old.note = "hello" /\ trip.card.note = "hello"
    /\ trip.old.n = trip.card.n /\ Len(trip.card.n) = 5

\* the values of N in the order prefix, first, middle, last, suffix
NameInOrder(n) ==
    <<strarray_safenth(n, 3), strarray_safenth(n, 1), strarray_safenth(n, 2),
      strarray_safenth(n, 0), strarray_safenth(n, 4)>>

\* the formatted name the card is to have: the values of N that are not
\* empty, one word each; else the nickname; else the first email; else
\* "No Name"
FormattedName(card) ==
    IF \E k \in 1..5 : NameInOrder(card.n)[k] # ""
    THEN SelectSeq(NameInOrder(card.n), LAMBDA v : v # "")
    ELSE IF card.nickname \notin {NULL, ""} THEN <<card.nickname>>
    ELSE IF card.email # <<>> THEN <<card.email[1].value>>
    ELSE <<"No Name">>

\* the contact has just been created, or updated with an object that sets a
\* name part or the nickname
NameWritten ==
    /\ trip.kind = "contact"
    /\ trip.r = 0
    /\ \/ trip.pc = "update"
       \/ /\ trip.pc = "read"
          /\ PatchKeys \cap (DOMAIN NameKeys \cup {"nickname"}) # {}

\* C34: after a create, and after an update that sets a name part or the
\* nickname, FN is the non-empty values of N in the order prefix, first,
\* middle, last, suffix; else the nickname; else the first email; else
\* "No Name".
C34_FormattedName == NameWritten => trip.card.fn = FormattedName(trip.card)

\* the birthday key has just been mapped onto the card
BirthdayWritten == trip.pc = "read"

\* the value has the form and its month, day and year are in range
BirthdayAccepted ==
    /\ trip.form
    /\ trip.m <= 12
    /\ trip.d <= 31
    /\ trip.y = 0 \/ trip.y >= 1605

\* the value of the parameter of the entry, NULL without it
ParamValue(entry, name) ==
    IF HasParam(entry, name)
    THEN entry.params[CHOOSE k \in 1..Len(entry.params) :
                          entry.params[k][1] = name][2]
    ELSE NULL

\* the BDAY the card holds is the date with 1604, 01 and 01 in the place of
\* a zero year, month and day, each with its parameter and no other
StoredWithMagic ==
    /\ trip.entry.value = fmt_date(IF trip.y = 0 THEN 1604 ELSE trip.y,
                                   IF trip.m = 0 THEN 1 ELSE trip.m,
                                   IF trip.d = 0 THEN 1 ELSE trip.d)
    /\ ParamValue(trip.entry, "x-apple-omit-year")
           = IF trip.y = 0 THEN "1604" ELSE NULL
    /\ ParamValue(trip.entry, "x-fm-no-month") = IF trip.m = 0 THEN "1" ELSE NULL
    /\ ParamValue(trip.entry, "x-fm-no-day") = IF trip.d = 0 THEN "1" ELSE NULL
    /\ Len(trip.entry.params)
           = Cardinality({c \in {"y", "m", "d"} : trip[c] = 0})

\* what the rule says of every value but the all-zero date
BirthdayRule ==
    /\ (trip.r = 0) <=> BirthdayAccepted
    /\ ~BirthdayAccepted => trip.entry = trip.old
    /\ (BirthdayAccepted /\ trip.y # 0 /\ trip.m # 0 /\ trip.d # 0) =>
           trip.entry = [value |-> trip.jmap, params |-> <<>>]

\* C35 as it is stated: a birthday is accepted exactly when it has the form
\* dddd-dd-dd with month <= 12, day <= 31 and year 0 or >= 1605, and every
\* other value leaves BDAY as it was; every accepted value with a zero
\* component is stored as a BDAY with 1604 / 01 / 01 and the parameters
\* X-APPLE-OMIT-YEAR=1604 / X-FM-NO-MONTH=1 / X-FM-NO-DAY=1 of its zero
\* components; a value without zero components is stored verbatim with none.
C35_BirthdayStored ==
    BirthdayWritten =>
        /\ BirthdayRule
        /\ (BirthdayAccepted /\ (trip.y = 0 \/ trip.m = 0 \/ trip.d = 0)) =>
               StoredWithMagic

\* C35 (amended): the same, with the all-zero date 0000-00-00 accepted and
\* leaving the card without a BDAY; the accepted values with one or two zero
\* components are stored with the magic values and their parameters.
C35_BirthdayWriteRule ==
    BirthdayWritten =>
        /\ BirthdayRule
        /\ (BirthdayAccepted /\ trip.y = 0 /\ trip.m = 0 /\ trip.d = 0) =>
               trip.entry = NoEntry
        /\ (/\ BirthdayAccepted
            /\ trip.y = 0 \/ trip.m = 0 \/ trip.d = 0
            /\ ~(trip.y = 0 /\ trip.m = 0 /\ trip.d = 0)) =>
               StoredWithMagic

\* 0000-00-15 written over a birthday with a year: stored as 1604-01-15 with
\* the parameters of the year and the month
C35_Witness ==
    /\ BirthdayWritten
    /\ trip.jmap = fmt_date(0, 0, 15)
    /\ trip.old = DateEntry(1999, 12, 31, <<>>)
    /\ trip.r = 0
    /\ trip.entry = DateEntry(1604, 1, 15, << <<"x-apple-omit-year", "1604">>,
                                              <<"x-fm-no-month", "1">> >>)

\* the contact has just been read
ContactRead ==
    /\ trip.pc = "done"
    /\ trip.kind = "contact"
    /\ "emails" \in DOMAIN trip.out

\* the EMAIL entries of the card that are marked preferred
Preferred ==
    {i \in 1..Len(trip.card.email) :
        \E k \in 1..Len(trip.card.email[i].params) :
            trip.card.email[i].params[k] = <<"type", "pref">>}

\* the element of emails that is to be the default
DefaultEmail ==
    IF Preferred = {} THEN 1
    ELSE CHOOSE i \in Preferred : \A j \in Preferred : i <= j

\* C36: on read of a contact with at least one EMAIL, emails has one element
\* for each EMAIL and exactly one of them has isDefault true: the first one
\* marked type=pref, or the first of all when none is marked, also when
\* several are marked; every other element has isDefault false.
C36_OneDefaultEmail ==
    ContactRead =>
        /\ Len(trip.out.emails) = Len(trip.card.email)
        /\ \A i \in 1..Len(trip.out.emails) :
               /\ trip.out.emails[i].isDefault \in BOOLEAN
               /\ trip.out.emails[i].isDefault <=> i = DefaultEmail
               /\ trip.out.emails[i].value = trip.card.email[i].value

\* a contact with three emails of which the second and the third are marked
\* preferred was read with the second as the default
C36_Witness ==
    /\ ContactRead
    /\ Preferred = {2, 3}
    /\ trip.out.emails[2].isDefault
    /\ ~trip.out.emails[1].isDefault
    /\ ~trip.out.emails[3].isDefault

\* the flag names of the event, before and after they were moved to its
\* flagNames parameter
FlagNamesOf(ev) ==
    {ev.flagnames[k] : k \in 1..Len(ev.flagnames)}
    \cup {ev.flagparam[k] : k \in 1..Len(ev.flagparam)}

\* the order the claim gives: that of the enqueues, the first two exchanged
\* when a FlagsSet leads and a FlagsClear of \Seen follows it
NotifyOrder(q) ==
    IF /\ Len(q.heap) >= 2
       /\ q.heap[1].type = "FlagsSet"
       /\ q.heap[2].type = "FlagsClear"
       /\ "\\Seen" \in FlagNamesOf(q.heap[2])
    THEN [k \in 1..Len(q.heap) |-> IF k = 1 THEN 2 ELSE IF k = 2 THEN 1 ELSE k]
    ELSE [k \in 1..Len(q.heap) |-> k]

\* the event produces no notification: it was cancelled, it refers to no
\* message, or it has no supported quota value
Unnotified(ev) ==
    \/ ev.type = "Cancelled"
    \/ ev.type \in {"FlagsSet", "FlagsClear", "MessageExpunge"} /\ ev.uidset = {}
    \/ ev.type = "MessageNew" /\ "uri" \notin ev.filled
    \/ ev.type = "QuotaExceed" /\ ev.filled \cap {"diskQuota", "maxMessages"} = {}

\* C37: mboxevent_notify visits the events in the order of the enqueues, a
\* FlagsClear of \Seen that follows a leading FlagsSet before that FlagsSet;
\* when it returns every event was visited once; the notifications come in
\* the order of the visits, every visited event that is notifiable has one,
\* and an event that was cancelled, that refers to no message or that has no
\* supported quota value has none.
C37_NotifyOrder ==
    mq.pc \in {"event", "split", "notified"} =>
        /\ Len(mq.visited) <= Len(mq.heap)
        /\ \A k \in 1..Len(mq.visited) : mq.visited[k] = NotifyOrder(mq)[k]
        /\ mq.pc = "notified" => Len(mq.visited) = Len(mq.heap)
        /\ \A k \in 1..Len(mq.sent) :
               /\ ~Unnotified(mq.heap[mq.sent[k].ev])
               /\ \E v \in 1..Len(mq.visited) : mq.visited[v] = mq.sent[k].ev
        /\ \A i, j \in 1..Len(mq.sent) :
               i < j => \E v, w \in 1..Len(mq.visited) :
                            /\ v <= w
                            /\ mq.visited[v] = mq.sent[i].ev
                            /\ mq.visited[w] = mq.sent[j].ev
        /\ \A v \in 1..Len(mq.visited) :
               (/\ ~Unnotified(mq.heap[mq.visited[v]])
                /\ v < Len(mq.visited) \/ mq.pc = "notified")
               => \E k \in 1..Len(mq.sent) : mq.sent[k].ev = mq.visited[v]

\* a queue of three events was notified: the FlagsClear of \Seen before the
\* FlagsSet that led the queue, and nothing for the third, which was
\* cancelled
C37_Witness ==
    /\ mq.pc = "notified"
    /\ Len(mq.heap) = 3
    /\ mq.heap[1].type = "FlagsSet"
    /\ mq.heap[3].type = "Cancelled"
    /\ mq.visited = <<2, 1, 3>>
    /\ Len(mq.sent) = 2
    /\ mq.sent[1].type = "FlagsClear"
    /\ mq.sent[2].type = "FlagsSet"

\* the assertion of mboxevent_notify holds for the queues of SpecNotify
NotifyNeverAborts == mq.pc \notin {"abort", "ub"}

\* the sequence without its first entry that is the flag
RECURSIVE Without(_, _)
Without(f, flag) ==
    IF f = <<>> THEN <<>>
    ELSE IF Head(f) = flag THEN Tail(f)
    ELSE <<Head(f)>> \o Without(Tail(f), flag)

\* the notification a turn of the inner loop is to send for a FlagsSet
\* event with the flag names f
TurnType(f) ==
    IF \E k \in 1..Len(f) : f[k] = "\\Deleted" THEN "MessageTrash"
    ELSE IF \E k \in 1..Len(f) : f[k] = "\\Seen" THEN "MessageRead"
    ELSE "FlagsSet"

\* one turn of the inner loop on a FlagsSet event with the flag names f: the
\* assertion holds and one notification is sent, MessageTrash for \Deleted,
\* else MessageRead for \Seen, both without flagNames and with that flag
\* taken out of f, else FlagsSet with the flags that are left as flagNames;
\* the loop goes on while flags are left, and they get fewer
SplitTurn(f, e) ==
    /\ mq'.pc # "abort"
    /\ Len(mq'.sent) = Len(mq.sent) + 1
    /\ mq'.sent[Len(mq'.sent)].ev = e
    /\ mq'.sent[Len(mq'.sent)].type = TurnType(f)
    /\ TurnType(f) = "MessageTrash" =>
           /\ "flagNames" \notin mq'.sent[Len(mq'.sent)].filled
           /\ mq'.heap[e].flagnames = Without(f, "\\Deleted")
    /\ TurnType(f) = "MessageRead" =>
           /\ "flagNames" \notin mq'.sent[Len(mq'.sent)].filled
           /\ mq'.heap[e].flagnames = Without(f, "\\Seen")
    /\ TurnType(f) = "FlagsSet" =>
           /\ f # <<>> => /\ "flagNames" \in mq'.sent[Len(mq'.sent)].filled
                          /\ mq'.sent[Len(mq'.sent)].flagNames = f
           /\ f = <<>> => "flagNames" \notin mq'.sent[Len(mq'.sent)].filled
           /\ mq'.heap[e].flagnames = <<>>
    /\ {"uri", "pid", "uidset"} \subseteq mq'.sent[Len(mq'.sent)].filled
    /\ mq'.pc = "split" <=> mq'.heap[e].flagnames # <<>>
    /\ mq'.pc = "split" => Len(mq'.heap[e].flagnames) < Len(f)

\* no flag is twice in the flag names of an event
NoFlagTwice(q) ==
    \A e \in 1..Len(q.heap) : \A i, j \in 1..Len(q.heap[e].flagnames) :
        q.heap[e].flagnames[i] = q.heap[e].flagnames[j] => i = j

\* C38: the inner loop of mboxevent_notify on a notifiable FlagsSet event
\* with the flag names F ends, and sends one MessageTrash if \Deleted is in
\* F, then one MessageRead if \Seen is in F, then one FlagsSet with the flags
\* that are left if any is left; MessageTrash and MessageRead carry no
\* flagNames, no flag is reported twice, and the filled_params assertion
\* holds for every notification, for an empty F too.
C38_FlagsSplit ==
    [][/\ (mq.pc = "split" /\ mq.heap[mq.cur].type = "FlagsSet")
           => SplitTurn(mq.heap[mq.cur].flagnames, mq.cur)
       /\ NoFlagTwice(mq')]_vars

\* the same for the FlagsSet events that have a flag to report
C38_FlagsSplitOfSome ==
    [][/\ (/\ mq.pc = "split"
           /\ mq.heap[mq.cur].type = "FlagsSet"
           /\ mq.heap[mq.cur].flagnames # <<>>)
           => SplitTurn(mq.heap[mq.cur].flagnames, mq.cur)
       /\ NoFlagTwice(mq')]_vars

\* a FlagsSet of \Deleted, \Seen and \Answered was reported with three
\* notifications
C38_Reported ==
    /\ mq.pc = "notified"
    /\ Len(mq.heap) = 1
    /\ Len(mq.sent) = 3
    /\ mq.sent[1].type = "MessageTrash"
    /\ mq.sent[2].type = "MessageRead"
    /\ mq.sent[3].type = "FlagsSet"
    /\ mq.sent[3].flagNames = <<"\\Answered">>

\* the assertion failed for a FlagsSet event without flag names
C38_Aborted ==
    /\ mq.pc = "abort"
    /\ mq.heap[mq.cur].type = "FlagsSet"
    /\ mq.heap[mq.cur].uidset # {}
    /\ mq.heap[mq.cur].flagnames = <<>>

\* the events that are allocated
Allocated(q) == {e \in 1..Len(q.heap) : q.heap[e].live}

\* the events found from the head pointer of the caller along next
FromHead(q) ==
    {queue_from(q.heap, q.head, Len(q.heap))[k] :
        k \in 1..Len(queue_from(q.heap, q.head, Len(q.heap)))}

\* C39: whatever mboxevent_enqueue, mboxevent_free and mboxevent_notify were
\* called on a queue, e.next.prev = e for every event e with a successor,
\* every event that is allocated is found from the head pointer of the
\* caller along next, and mboxevent_freequeue on that head frees every event
\* once and reads no event that was freed; a FlagsSet and FlagsClear pair
\* that mboxevent_notify exchanged included.
C39_QueueIntegrity ==
    /\ mq.pc # "ub"
    /\ mq.pc \in {"build", "event", "split", "notified"} =>
           /\ \A e \in Allocated(mq) :
                  mq.heap[e].next # 0 =>
                      /\ mq.heap[e].next \in Allocated(mq)
                      /\ mq.heap[mq.heap[e].next].prev = e
           /\ Allocated(mq) \subseteq FromHead(mq)
    /\ mq.pc = "freed" => Allocated(mq) = {}

\* mboxevent_notify exchanged the two leading events of a queue and returned
C39_Exchanged ==
    /\ mq.pc = "notified"
    /\ Len(mq.visited) >= 2
    /\ mq.visited[1] = 2
    /\ mq.visited[2] = 1

\* C40: after the calls of mboxevent_extract_record on an event that expects
\* the modseq parameter, the parameter is filled only if the uidset of the
\* event refers to one message: with two or more UIDs it is not filled, in
\* the event and in the notifications sent for it.
C40_ModseqOfOneMessage ==
    /\ \A e \in 1..Len(mq.heap) :
           (/\ mboxevent_expected_param(mq.heap[e].type, "modseq")
            /\ "modseq" \in mq.heap[e].filled)
           => Cardinality(mq.heap[e].uidset) = 1
    /\ \A k \in 1..Len(mq.sent) :
           "modseq" \in mq.sent[k].filled => Cardinality(mq.sent[k].uidset) = 1

\* an event of three messages was notified without modseq
C40_ThreeMessages ==
    /\ mq.pc = "notified"
    /\ Len(mq.sent) >= 1
    /\ Cardinality(mq.sent[1].uidset) = 3
    /\ "modseq" \notin mq.sent[1].filled

====
